---- MODULE Spec2Model ----
(***************************************************************************)
(* Smart_Job_Board: the annotation extractors, the two filter engines      *)
(* (the generic board's filter effect and the regional search API), the    *)
(* job store written by saveToDatabase, the trending aggregation, the      *)
(* scraper's listing loop and the freshness and clean-up cron jobs.        *)
(*                                                                         *)
(* Text is a sequence of one-character strings.  A character outside ASCII *)
(* is written by the name of its code point ("U+6708").                    *)
(***************************************************************************)
EXTENDS Integers, Sequences, FiniteSets, TLC

VARIABLES
  description,   \* the text handed to an extractor
  extracted,     \* the last extractor call: [fn |-> name, val |-> result]
  jobs,          \* JobBoard: the jobs state
  searchTerm,    \* JobBoard: the searchTerm state
  filters,       \* JobBoard: the filters state
  filteredJobs,  \* JobBoard: the filteredJobs state
  table,         \* the rows of the jobs table
  request,       \* GET /api/jobs/hk: req.query of the request
  response,      \* GET /api/jobs/hk: the response sent
  now,           \* the clock, in days
  nextId,        \* the next value of the sequence of jobs.id
  txn,           \* saveToDatabase: the transaction of each saver
  trending,      \* GET /api/jobs/hk/trending: the request and the response sent
  scraper,       \* JobsDBScraper.extractJobListings: the cards, the loop and its result
  sweep,         \* the cron sweeps: the last sweep run and what it did
  service        \* the scrape triggers, the stats requests and the redis keys they use

extractVars == <<description, extracted>>
boardVars == <<jobs, searchTerm, filters, filteredJobs>>
apiVars == <<request, response>>
storeVars == <<table, now, nextId, txn, trending>>
crawlVars == <<scraper, sweep, service>>
vars == <<extractVars, boardVars, apiVars, storeVars, crawlVars>>


\* A value that may be absent (JS null, undefined or NaN, SQL NULL) is a set:
\* empty when absent, else the one value.  A comparison with an absent value
\* is then false, as >= and <= are on null in SQL and on NaN in JS.
Absent == {}
Some(v) == {v}

(***************************************************************************)
(* Characters and strings                                                  *)
(***************************************************************************)
UpperCase == <<"A", "B", "C", "D", "E", "F", "G", "H", "I", "J", "K", "L", "M", "N", "O", "P", "Q", "R", "S", "T", "U", "V", "W", "X", "Y", "Z">>
LowerCase == <<"a", "b", "c", "d", "e", "f", "g", "h", "i", "j", "k", "l", "m", "n", "o", "p", "q", "r", "s", "t", "u", "v", "w", "x", "y", "z">>
Digits == <<"0", "1", "2", "3", "4", "5", "6", "7", "8", "9">>
DigitSet == {Digits[i] : i \in 1..Len(Digits)}
Whitespace == {" ", "\n", "\t"}

\* String.prototype.toLowerCase on one character
LowerChar(c) ==
  IF \E i \in 1..Len(UpperCase) : UpperCase[i] = c
  THEN LowerCase[CHOOSE i \in 1..Len(UpperCase) : UpperCase[i] = c]
  ELSE c

\* String.prototype.toLowerCase
ToLowerCase(s) == [i \in 1..Len(s) |-> LowerChar(s[i])]

\* String.prototype.includes for a one-character needle
IncludesChar(s, c) == \E i \in 1..Len(s) : s[i] = c

\* The value of a decimal digit
DigitValue(c) == (CHOOSE i \in 1..Len(Digits) : Digits[i] = c) - 1

RECURSIVE DigitsValue(_, _)
\* The number written by the digits s[1..n]
DigitsValue(s, n) ==
  IF n = 0 THEN 0 ELSE 10 * DigitsValue(s, n - 1) + DigitValue(s[n])

RECURSIVE DigitRun(_, _)
\* The length of the run of digits of s that starts at position i
DigitRun(s, i) ==
  IF i <= Len(s) /\ s[i] \in DigitSet THEN 1 + DigitRun(s, i + 1) ELSE 0

RECURSIVE SkipSpace(_, _)
SkipSpace(s, i) ==
  IF i <= Len(s) /\ s[i] \in Whitespace THEN SkipSpace(s, i + 1) ELSE i

\* parseInt(s): leading white space is skipped, the longest digit prefix is
\* read (no sign occurs in the texts the callers pass), NaN when there is none
ParseInt(s) ==
  LET a == SkipSpace(s, 1)
      signed == a <= Len(s) /\ s[a] \in {"-", "+"}
      b == IF signed THEN a + 1 ELSE a
      n == DigitRun(s, b)
      v == DigitsValue(SubSeq(s, b, b + n - 1), n)
  IN IF n = 0 THEN Absent ELSE Some(IF signed /\ s[a] = "-" THEN 0 - v ELSE v)

\* a * k on a JS number a that may be NaN
Times(a, k) == {x * k : x \in a}

RECURSIVE RemoveChars(_, _, _)
\* s.replace(/[...]/g, '') for a character class; ci is the i flag
RemoveChars(s, class, ci) ==
  IF s = <<>> THEN <<>>
  ELSE LET c == IF ci THEN LowerChar(Head(s)) ELSE Head(s)
       IN (IF c \in class THEN <<>> ELSE <<Head(s)>>)
            \o RemoveChars(Tail(s), class, ci)

(***************************************************************************)
(* Regular expressions, with the backtracking order of the JS engine: a    *)
(* match attempt yields its candidate matches in the order the engine      *)
(* tries them, and the first candidate at the leftmost start is the match. *)
(***************************************************************************)
Lit(c) == [t |-> "lit", c |-> c]
Cls(S) == [t |-> "cls", s |-> S]
Cat(rs) == [t |-> "cat", rs |-> rs]
Alt(rs) == [t |-> "alt", rs |-> rs]
Rep(r, lo, hi) == [t |-> "rep", r |-> r, lo |-> lo, hi |-> hi]   \* greedy; hi = -1: no upper limit
Grp(n, r) == [t |-> "grp", n |-> n, r |-> r]
Word(w) == Cat([i \in 1..Len(w) |-> Lit(w[i])])
Opt(r) == Rep(r, 0, 1)
Star(r) == Rep(r, 0, -1)
Plus(r) == Rep(r, 1, -1)
Sp == Star(Cls(Whitespace))          \* \s*
Dig(lo, hi) == Rep(Cls(DigitSet), lo, hi)   \* \d{lo,hi}

RECURSIVE M(_, _, _, _, _), MCat(_, _, _, _, _, _), ThenCat(_, _, _, _, _, _)
RECURSIVE MAlt(_, _, _, _, _, _), MRep(_, _, _, _, _, _, _), ThenRep(_, _, _, _, _, _, _, _)
RECURSIVE SetCap(_, _, _, _)

\* The candidates of r at position i of s, each the end of the match and the captures
M(r, ci, s, i, caps) ==
  CASE r.t = "lit" ->
         IF i <= Len(s) /\ (IF ci THEN LowerChar(s[i]) = LowerChar(r.c) ELSE s[i] = r.c)
         THEN <<[e |-> i + 1, caps |-> caps]>> ELSE <<>>
    [] r.t = "cls" ->
         IF i <= Len(s) /\ (s[i] \in r.s \/ (ci /\ LowerChar(s[i]) \in r.s))
         THEN <<[e |-> i + 1, caps |-> caps]>> ELSE <<>>
    [] r.t = "cat" -> MCat(r.rs, 1, ci, s, i, caps)
    [] r.t = "alt" -> MAlt(r.rs, 1, ci, s, i, caps)
    [] r.t = "rep" -> MRep(r.r, r.lo, r.hi, ci, s, i, caps)
    [] r.t = "grp" -> SetCap(M(r.r, ci, s, i, caps), 1, r.n, i)

MCat(rs, k, ci, s, i, caps) ==
  IF k > Len(rs) THEN <<[e |-> i, caps |-> caps]>>
  ELSE ThenCat(M(rs[k], ci, s, i, caps), 1, rs, k, ci, s)

ThenCat(ms, j, rs, k, ci, s) ==
  IF j > Len(ms) THEN <<>>
  ELSE MCat(rs, k + 1, ci, s, ms[j].e, ms[j].caps) \o ThenCat(ms, j + 1, rs, k, ci, s)

MAlt(rs, k, ci, s, i, caps) ==
  IF k > Len(rs) THEN <<>>
  ELSE M(rs[k], ci, s, i, caps) \o MAlt(rs, k + 1, ci, s, i, caps)

MRep(r, lo, hi, ci, s, i, caps) ==
  (IF hi = 0 THEN <<>> ELSE ThenRep(M(r, ci, s, i, caps), 1, r, lo, hi, ci, s, i))
    \o (IF lo <= 0 THEN <<[e |-> i, caps |-> caps]>> ELSE <<>>)

ThenRep(ms, j, r, lo, hi, ci, s, i) ==
  IF j > Len(ms) THEN <<>>
  ELSE (IF ms[j].e > i
        THEN MRep(r, lo - 1, IF hi < 0 THEN hi ELSE hi - 1, ci, s, ms[j].e, ms[j].caps)
        ELSE <<>>)
         \o ThenRep(ms, j + 1, r, lo, hi, ci, s, i)

SetCap(ms, j, n, i) ==
  IF j > Len(ms) THEN <<>>
  ELSE <<[e |-> ms[j].e, caps |-> [ms[j].caps EXCEPT ![n] = <<i, ms[j].e>>]]>>
         \o SetCap(ms, j + 1, n, i)

NoMatch == [found |-> FALSE]

RECURSIVE ExecFrom(_, _, _, _)
ExecFrom(re, ci, s, i) ==
  IF i > Len(s) + 1 THEN NoMatch
  ELSE LET ms == M(re, ci, s, i, <<<<0, 0>>, <<0, 0>>>>)
       IN IF Len(ms) > 0
          THEN [found |-> TRUE, start |-> i, end |-> ms[1].e, caps |-> ms[1].caps]
          ELSE ExecFrom(re, ci, s, i + 1)

\* String.prototype.match(re) for a regex without the g flag: null or the match
Match(re, ci, s) == ExecFrom(re, ci, s, 1)

\* RegExp.prototype.test
Test(re, ci, s) == Match(re, ci, s).found

\* match[0] and match[n]
Matched(s, m) == SubSeq(s, m.start, m.end - 1)
Group(s, m, n) == SubSeq(s, m.caps[n][1], m.caps[n][2] - 1)

(***************************************************************************)
(* Input texts: up to MaxPhrases phrases of a vocabulary, joined by blanks *)
(***************************************************************************)
MaxPhrases == 2

RECURSIVE Join(_)
Join(ps) ==
  IF ps = <<>> THEN <<>>
  ELSE IF Len(ps) = 1 THEN ps[1]
  ELSE ps[1] \o <<" ">> \o Join(Tail(ps))

TextsOver(phrases) ==
  {Join(ps) : ps \in UNION {[1..n -> phrases] : n \in 0..MaxPhrases}}

NotCalled == [fn |-> "none"]

\* The extractors are pure functions: nothing is running beside a call
NoExtractorCall == description = <<>> /\ extracted = NotCalled
\* useState<Filters>({...}): the initial filters
EmptyFilters ==
  [techStack |-> <<>>, minExperience |-> <<>>, maxExperience |-> <<>>,
   visaSponsorship |-> "", securityClearance |-> "", education |-> <<>>,
   location |-> "", minSalary |-> <<>>]

NoBoard == jobs = <<>> /\ searchTerm = <<>> /\ filters = EmptyFilters /\ filteredJobs = <<>>

\* req.query of a request without parameters
EmptyQuery ==
  [search |-> <<>>, techStack |-> <<>>, minExperience |-> <<>>, maxExperience |-> <<>>,
   minSalary |-> <<>>, maxSalary |-> <<>>, district |-> "", languages |-> <<>>,
   industry |-> "", workPermit |-> "", benefits |-> <<>>, page |-> Absent, limit |-> Absent]

\* No response was sent
NoResponse == [status |-> 0, data |-> <<>>, page |-> Absent, limit |-> Absent, total |-> Absent]

NoApi == request = EmptyQuery /\ response = NoResponse

Savers == {1, 2}

\* No transaction of the saver is open
IdleTxn ==
  [pc |-> "idle", batch |-> <<>>, next |-> 1, start |-> 0, inserted |-> {}, updated |-> {}]

\* No trending request was answered
NoTrending == [status |-> 0, days |-> Absent, at |-> 0, rows |-> <<>>]

\* The store holds the rows tbl at time t, the sequence is at n, and nothing runs on it
IdleStore(tbl, t, n) ==
  /\ table = tbl
  /\ now = t
  /\ nextId = n
  /\ txn = [p \in Savers |-> IdleTxn]
  /\ trending = NoTrending

NoStore == IdleStore({}, 0, 1)

\* The scraper has listed nothing and no sweep has run
NoScraper == [pc |-> "idle", cards |-> <<>>, next |-> 1, visits |-> <<>>, detailedJobs |-> <<>>]
NoSweep == [pc |-> "idle", staleJobs |-> <<>>, next |-> 1, outcome |-> "none", cleaned |-> 0]

\* The handlers that start a scrape: two POST /api/jobs/hk/scrape requests
\* in flight at once and the scheduled run; the stats requests in flight
Triggers == {"manual1", "manual2", "cron"}
StatsRequests == {1, 2}

\* No trigger has arrived, no stats request is in flight, redis holds no key.
\* Each trigger and each stats request arrives at most once.
\* store counts the batches saved; cleared and after are history: the store
\* as of the last scrape that saved and then cleared the stats cache, and
\* what that was when each stats request arrived
NoService ==
  [flag |-> FALSE,
   pc |-> [t \in Triggers |-> "idle"],
   isRunning |-> [t \in Triggers |-> FALSE],
   batch |-> [t \in Triggers |-> 0],
   store |-> 0,
   stats |-> Absent,
   statsPc |-> [r \in StatsRequests |-> "idle"],
   result |-> [r \in StatsRequests |-> 0],
   reply |-> [r \in StatsRequests |-> Absent],
   after |-> [r \in StatsRequests |-> 0],
   cleared |-> 0,
   status |-> Absent]

NoCrawl == scraper = NoScraper /\ sweep = NoSweep /\ service = NoService

(***************************************************************************)
(* Regional salary: HK_PATTERNS.salary and extractHKSalary                 *)
(***************************************************************************)
\* (\d{1,3},?\d{3}) as capture group n
GroupedNumber(n) == Grp(n, Cat(<<Dig(1, 3), Opt(Lit(",")), Dig(3, 3)>>))

HK_PATTERNS_salary == <<
  \* /HK\$?\s*(\d{1,3},?\d{3})\s*-\s*HK\$?\s*(\d{1,3},?\d{3})/i
  Cat(<<Word(<<"H", "K">>), Opt(Lit("$")), Sp, GroupedNumber(1), Sp, Lit("-"), Sp,
        Word(<<"H", "K">>), Opt(Lit("$")), Sp, GroupedNumber(2)>>),
  \* /\$(\d{1,3}k)\s*-\s*\$(\d{1,3}k)/i
  Cat(<<Lit("$"), Grp(1, Cat(<<Dig(1, 3), Lit("k")>>)), Sp, Lit("-"), Sp,
        Lit("$"), Grp(2, Cat(<<Dig(1, 3), Lit("k")>>))>>),
  \* /(\d{2,3})k\s*-\s*(\d{2,3})k\s*(?:HKD|HK\$)/i
  Cat(<<Grp(1, Dig(2, 3)), Lit("k"), Sp, Lit("-"), Sp, Grp(2, Dig(2, 3)), Lit("k"), Sp,
        Alt(<<Word(<<"H", "K", "D">>), Word(<<"H", "K", "$">>)>>)>>),
  \* /<U+6708><U+85AA>\s*[<U+FF1A>:]\s*\$?(\d{1,3},?\d{3})\s*-\s*\$?(\d{1,3},?\d{3})/i
  Cat(<<Word(<<"U+6708", "U+85AA">>), Sp, Cls({"U+FF1A", ":"}), Sp, Opt(Lit("$")),
        GroupedNumber(1), Sp, Lit("-"), Sp, Opt(Lit("$")), GroupedNumber(2)>>)
>>

RECURSIVE FirstMatching(_, _, _, _)
\* The index of the first pattern of the list, from k on, that matches s; 0: none
FirstMatching(patterns, ci, s, k) ==
  IF k > Len(patterns) THEN 0
  ELSE IF Test(patterns[k], ci, s) THEN k
  ELSE FirstMatching(patterns, ci, s, k + 1)

\* The body of the loop of extractHKSalary for the matching pattern
HKSalaryOf(s, m) ==
  LET min == RemoveChars(Group(s, m, 1), {"k", ","}, TRUE)
      max == RemoveChars(Group(s, m, 2), {"k", ","}, TRUE)
  IN IF IncludesChar(ToLowerCase(Matched(s, m)), "k")
     THEN [min |-> Times(ParseInt(min), 1000), max |-> Times(ParseInt(max), 1000),
           currency |-> "HKD"]
     ELSE [min |-> ParseInt(RemoveChars(min, {","}, FALSE)),
           max |-> ParseInt(RemoveChars(max, {","}, FALSE)),
           currency |-> "HKD"]

\* extractHKSalary(description): null (Absent) or {min, max, currency}
extractHKSalary(s) ==
  LET k == FirstMatching(HK_PATTERNS_salary, TRUE, s, 1)
  IN IF k = 0 THEN Absent ELSE Some(HKSalaryOf(s, Match(HK_PATTERNS_salary[k], TRUE, s)))

SalaryPhrases == {
  <<"H", "K", "$", "2", "0", ",", "0", "0", "0", " ", "-", " ", "H", "K", "$", "4", "0", ",", "0", "0", "0">>,
  <<"h", "k", " ", "1", "8", "0", "0", "0", "-", "2", "5", "0", "0", "0">>,
  <<"H", "K", "$", " ", "8", ",", "0", "0", "0", " ", "-", " ", "H", "K", "$", "9", "5", "0", "0">>,
  <<"H", "K", "D", " ", "3", "0", ",", "0", "0", "0", " ", "-", " ", "H", "K", "D", " ", "5", "0", ",", "0", "0", "0">>,
  <<"$", "2", "0", "k", " ", "-", " ", "$", "4", "0", "k">>,
  <<"2", "5", "k", " ", "-", " ", "3", "5", "k", " ", "H", "K", "D">>,
  <<"U+6708", "U+85AA", ":", " ", "$", "1", "5", ",", "0", "0", "0", " ", "-", " ", "$", "2", "0", ",", "0", "0", "0">>,
  <<"s", "a", "l", "a", "r", "y">>
}

InitSalary ==
  /\ description \in TextsOver(SalaryPhrases)
  /\ extracted = NotCalled
  /\ NoBoard
  /\ NoApi
  /\ NoStore
  /\ NoCrawl

CallExtractHKSalary ==
  /\ extracted' = [fn |-> "extractHKSalary", val |-> extractHKSalary(description)]
  /\ UNCHANGED <<description, boardVars, apiVars, storeVars, crawlVars>>

NextSalary == CallExtractHKSalary

SpecSalary == InitSalary /\ [][NextSalary]_vars

\* The number a comma-grouped numeral states: its digits, separators stripped
StatedNumber(numeral) == DigitsValue(RemoveChars(numeral, {","}, FALSE), Len(RemoveChars(numeral, {","}, FALSE)))

\* The first matching regional salary pattern of the text is the HK$-prefixed range
IsHKRange(s) == FirstMatching(HK_PATTERNS_salary, TRUE, s, 1) = 1

\* C2: whenever the first matching regional salary pattern of the description
\* is the HK$-prefixed comma-grouped range "HK$A - HK$B", extractHKSalary
\* returns min = A and max = B, the stated numbers with the thousands
\* separators stripped and no scaling, and currency "HKD".
C2_HKRangeUnscaled ==
  (extracted.fn = "extractHKSalary" /\ IsHKRange(description)) =>
    LET m == Match(HK_PATTERNS_salary[1], TRUE, description)
    IN extracted.val = Some([min |-> Some(StatedNumber(Group(description, m, 1))),
                             max |-> Some(StatedNumber(Group(description, m, 2))),
                             currency |-> "HKD"])

(***************************************************************************)
(* Generic visa sponsorship: checkVisaSponsorship                          *)
(***************************************************************************)
positivePatterns == <<
  \* /visa\s*sponsorship\s*(?:is\s*)?available/i
  Cat(<<Word(<<"v", "i", "s", "a">>), Sp, Word(<<"s", "p", "o", "n", "s", "o", "r", "s", "h", "i", "p">>), Sp, Opt(Cat(<<Word(<<"i", "s">>), Sp>>)),
        Word(<<"a", "v", "a", "i", "l", "a", "b", "l", "e">>)>>),
  \* /willing\s*to\s*sponsor/i
  Cat(<<Word(<<"w", "i", "l", "l", "i", "n", "g">>), Sp, Word(<<"t", "o">>), Sp, Word(<<"s", "p", "o", "n", "s", "o", "r">>)>>),
  \* /we\s*sponsor/i
  Cat(<<Word(<<"w", "e">>), Sp, Word(<<"s", "p", "o", "n", "s", "o", "r">>)>>),
  \* /sponsorship\s*provided/i
  Cat(<<Word(<<"s", "p", "o", "n", "s", "o", "r", "s", "h", "i", "p">>), Sp, Word(<<"p", "r", "o", "v", "i", "d", "e", "d">>)>>),
  \* /h1b\s*sponsorship/i
  Cat(<<Word(<<"h", "1", "b">>), Sp, Word(<<"s", "p", "o", "n", "s", "o", "r", "s", "h", "i", "p">>)>>)
>>

negativePatterns == <<
  \* /no\s*visa\s*sponsorship/i
  Cat(<<Word(<<"n", "o">>), Sp, Word(<<"v", "i", "s", "a">>), Sp, Word(<<"s", "p", "o", "n", "s", "o", "r", "s", "h", "i", "p">>)>>),
  \* /unable\s*to\s*sponsor/i
  Cat(<<Word(<<"u", "n", "a", "b", "l", "e">>), Sp, Word(<<"t", "o">>), Sp, Word(<<"s", "p", "o", "n", "s", "o", "r">>)>>),
  \* /cannot\s*sponsor/i
  Cat(<<Word(<<"c", "a", "n", "n", "o", "t">>), Sp, Word(<<"s", "p", "o", "n", "s", "o", "r">>)>>),
  \* /not\s*able\s*to\s*sponsor/i
  Cat(<<Word(<<"n", "o", "t">>), Sp, Word(<<"a", "b", "l", "e">>), Sp, Word(<<"t", "o">>), Sp, Word(<<"s", "p", "o", "n", "s", "o", "r">>)>>),
  \* /must\s*be\s*authorized/i
  Cat(<<Word(<<"m", "u", "s", "t">>), Sp, Word(<<"b", "e">>), Sp, Word(<<"a", "u", "t", "h", "o", "r", "i", "z", "e", "d">>)>>),
  \* /must\s*have\s*work\s*authorization/i
  Cat(<<Word(<<"m", "u", "s", "t">>), Sp, Word(<<"h", "a", "v", "e">>), Sp, Word(<<"w", "o", "r", "k">>), Sp, Word(<<"a", "u", "t", "h", "o", "r", "i", "z", "a", "t", "i", "o", "n">>)>>)
>>

\* The positive loop before the negative one
checkVisaSponsorship_positiveFirst(s) ==
  IF FirstMatching(positivePatterns, TRUE, s, 1) # 0 THEN Some(TRUE)
  ELSE IF FirstMatching(negativePatterns, TRUE, s, 1) # 0 THEN Some(FALSE)
  ELSE Absent

\* checkVisaSponsorship(description): false, true or null (Absent)
checkVisaSponsorship(s) ==
  IF FirstMatching(negativePatterns, TRUE, s, 1) # 0 THEN Some(FALSE)
  ELSE IF FirstMatching(positivePatterns, TRUE, s, 1) # 0 THEN Some(TRUE)
  ELSE Absent

VisaPhrases == {
  <<"n", "o">>,
  <<"v", "i", "s", "a", " ", "s", "p", "o", "n", "s", "o", "r", "s", "h", "i", "p", " ", "a", "v", "a", "i", "l", "a", "b", "l", "e">>,
  <<"V", "i", "s", "a", " ", "s", "p", "o", "n", "s", "o", "r", "s", "h", "i", "p", " ", "i", "s", " ", "a", "v", "a", "i", "l", "a", "b", "l", "e">>,
  <<"w", "e", " ", "s", "p", "o", "n", "s", "o", "r">>,
  <<"H", "1", "B", " ", "s", "p", "o", "n", "s", "o", "r", "s", "h", "i", "p", " ", "p", "r", "o", "v", "i", "d", "e", "d">>,
  <<"u", "n", "a", "b", "l", "e", " ", "t", "o", " ", "s", "p", "o", "n", "s", "o", "r">>,
  <<"M", "u", "s", "t", " ", "b", "e", " ", "a", "u", "t", "h", "o", "r", "i", "z", "e", "d">>,
  <<"r", "e", "l", "o", "c", "a", "t", "i", "o", "n">>
}

InitVisa ==
  /\ description \in TextsOver(VisaPhrases)
  /\ extracted = NotCalled
  /\ NoBoard
  /\ NoApi
  /\ NoStore
  /\ NoCrawl

CallCheckVisaSponsorship ==
  /\ extracted' = [fn |-> "checkVisaSponsorship", val |-> checkVisaSponsorship(description)]
  /\ UNCHANGED <<description, boardVars, apiVars, storeVars, crawlVars>>

NextVisa == CallCheckVisaSponsorship

SpecVisa == InitVisa /\ [][NextVisa]_vars

SomeMatches(patterns, s) == \E k \in 1..Len(patterns) : Test(patterns[k], TRUE, s)

\* C3: checkVisaSponsorship returns false for every description that matches
\* at least one negative pattern, whatever positive patterns it also matches;
\* true only when no negative pattern matches and some positive pattern
\* matches; and null when neither list matches.
C3_NegativeWins ==
  extracted.fn = "checkVisaSponsorship" =>
    LET neg == SomeMatches(negativePatterns, description)
        pos == SomeMatches(positivePatterns, description)
    IN /\ neg => extracted.val = Some(FALSE)
       /\ (extracted.val = Some(TRUE)) => (~neg /\ pos)
       /\ (~neg /\ ~pos) <=> (extracted.val = Absent)

\* A description matching a negative and a positive pattern was classified
C3_Witness ==
  /\ extracted.fn = "checkVisaSponsorship"
  /\ SomeMatches(negativePatterns, description)
  /\ SomeMatches(positivePatterns, description)
  /\ extracted.val = Some(FALSE)

(***************************************************************************)
(* Regional industry: classifyHKIndustry                                   *)
(***************************************************************************)
W2(a, b) == Cat(<<Word(a), Sp, Word(b)>>)

\* The entries of the object literal, in insertion order
industries == <<
  [label |-> "Banking & Finance",
   \* /bank|financial|investment|trading|hedge\s*fund|private\s*equity|wealth\s*management/i
   pattern |-> Alt(<<Word(<<"b", "a", "n", "k">>), Word(<<"f", "i", "n", "a", "n", "c", "i", "a", "l">>), Word(<<"i", "n", "v", "e", "s", "t", "m", "e", "n", "t">>), Word(<<"t", "r", "a", "d", "i", "n", "g">>),
                     W2(<<"h", "e", "d", "g", "e">>, <<"f", "u", "n", "d">>), W2(<<"p", "r", "i", "v", "a", "t", "e">>, <<"e", "q", "u", "i", "t", "y">>),
                     W2(<<"w", "e", "a", "l", "t", "h">>, <<"m", "a", "n", "a", "g", "e", "m", "e", "n", "t">>)>>)],
  [label |-> "Insurance",
   \* /insurance|takaful|actuary|underwriting/i
   pattern |-> Alt(<<Word(<<"i", "n", "s", "u", "r", "a", "n", "c", "e">>), Word(<<"t", "a", "k", "a", "f", "u", "l">>), Word(<<"a", "c", "t", "u", "a", "r", "y">>),
                     Word(<<"u", "n", "d", "e", "r", "w", "r", "i", "t", "i", "n", "g">>)>>)],
  [label |-> "Real Estate",
   \* /property|real\s*estate|construction|architectural/i
   pattern |-> Alt(<<Word(<<"p", "r", "o", "p", "e", "r", "t", "y">>), W2(<<"r", "e", "a", "l">>, <<"e", "s", "t", "a", "t", "e">>), Word(<<"c", "o", "n", "s", "t", "r", "u", "c", "t", "i", "o", "n">>),
                     Word(<<"a", "r", "c", "h", "i", "t", "e", "c", "t", "u", "r", "a", "l">>)>>)],
  [label |-> "Retail",
   \* /retail|shopping|mall|luxury|fashion/i
   pattern |-> Alt(<<Word(<<"r", "e", "t", "a", "i", "l">>), Word(<<"s", "h", "o", "p", "p", "i", "n", "g">>), Word(<<"m", "a", "l", "l">>), Word(<<"l", "u", "x", "u", "r", "y">>),
                     Word(<<"f", "a", "s", "h", "i", "o", "n">>)>>)],
  [label |-> "Logistics",
   \* /logistics|shipping|freight|supply\s*chain|warehouse/i
   pattern |-> Alt(<<Word(<<"l", "o", "g", "i", "s", "t", "i", "c", "s">>), Word(<<"s", "h", "i", "p", "p", "i", "n", "g">>), Word(<<"f", "r", "e", "i", "g", "h", "t">>),
                     W2(<<"s", "u", "p", "p", "l", "y">>, <<"c", "h", "a", "i", "n">>), Word(<<"w", "a", "r", "e", "h", "o", "u", "s", "e">>)>>)],
  [label |-> "Technology",
   \* /fintech|software|IT|technology|digital|cyber/i
   pattern |-> Alt(<<Word(<<"f", "i", "n", "t", "e", "c", "h">>), Word(<<"s", "o", "f", "t", "w", "a", "r", "e">>), Word(<<"I", "T">>), Word(<<"t", "e", "c", "h", "n", "o", "l", "o", "g", "y">>),
                     Word(<<"d", "i", "g", "i", "t", "a", "l">>), Word(<<"c", "y", "b", "e", "r">>)>>)],
  [label |-> "Healthcare",
   \* /hospital|medical|clinic|pharmaceutical|healthcare/i
   pattern |-> Alt(<<Word(<<"h", "o", "s", "p", "i", "t", "a", "l">>), Word(<<"m", "e", "d", "i", "c", "a", "l">>), Word(<<"c", "l", "i", "n", "i", "c">>),
                     Word(<<"p", "h", "a", "r", "m", "a", "c", "e", "u", "t", "i", "c", "a", "l">>), Word(<<"h", "e", "a", "l", "t", "h", "c", "a", "r", "e">>)>>)],
  [label |-> "Education",
   \* /university|school|education|teaching|academy/i
   pattern |-> Alt(<<Word(<<"u", "n", "i", "v", "e", "r", "s", "i", "t", "y">>), Word(<<"s", "c", "h", "o", "o", "l">>), Word(<<"e", "d", "u", "c", "a", "t", "i", "o", "n">>),
                     Word(<<"t", "e", "a", "c", "h", "i", "n", "g">>), Word(<<"a", "c", "a", "d", "e", "m", "y">>)>>)],
  [label |-> "Government",
   \* /government|civil\s*service|public\s*sector/i
   pattern |-> Alt(<<Word(<<"g", "o", "v", "e", "r", "n", "m", "e", "n", "t">>), W2(<<"c", "i", "v", "i", "l">>, <<"s", "e", "r", "v", "i", "c", "e">>),
                     W2(<<"p", "u", "b", "l", "i", "c">>, <<"s", "e", "c", "t", "o", "r">>)>>)]
>>

RECURSIVE classifyFromLast(_, _)
\* The loop run from the last entry to the first
classifyFromLast(s, k) ==
  IF k = 0 THEN "Other"
  ELSE IF Test(industries[k].pattern, TRUE, s) THEN industries[k].label
  ELSE classifyFromLast(s, k - 1)

classifyHKIndustry_lastWins(s) == classifyFromLast(s, Len(industries))

RECURSIVE classifyFrom(_, _)
\* for (const [industry, pattern] of Object.entries(industries)), from entry k on
classifyFrom(s, k) ==
  IF k > Len(industries) THEN "Other"
  ELSE IF Test(industries[k].pattern, TRUE, s) THEN industries[k].label
  ELSE classifyFrom(s, k + 1)

\* classifyHKIndustry(description)
classifyHKIndustry(s) == classifyFrom(s, 1)

IndustryPhrases == {
  <<"i", "n", "v", "e", "s", "t", "m", "e", "n", "t", " ", "b", "a", "n", "k">>,
  <<"S", "o", "f", "t", "w", "a", "r", "e", " ", "e", "n", "g", "i", "n", "e", "e", "r">>,
  <<"f", "i", "n", "t", "e", "c", "h">>,
  <<"i", "n", "s", "u", "r", "a", "n", "c", "e">>,
  <<"h", "e", "d", "g", "e", " ", "f", "u", "n", "d">>,
  <<"p", "u", "b", "l", "i", "c", " ", "s", "e", "c", "t", "o", "r">>,
  <<"s", "c", "h", "o", "o", "l">>,
  <<"b", "a", "k", "e", "r", "y">>
}

InitIndustry ==
  /\ description \in TextsOver(IndustryPhrases)
  /\ extracted = NotCalled
  /\ NoBoard
  /\ NoApi
  /\ NoStore
  /\ NoCrawl

CallClassifyHKIndustry ==
  /\ extracted' = [fn |-> "classifyHKIndustry", val |-> classifyHKIndustry(description)]
  /\ UNCHANGED <<description, boardVars, apiVars, storeVars, crawlVars>>

NextIndustry == CallClassifyHKIndustry

SpecIndustry == InitIndustry /\ [][NextIndustry]_vars

CategoryMatches(k, s) == Test(industries[k].pattern, TRUE, s)

\* C4: classifyHKIndustry returns the label of the first category, in the
\* fixed list order, whose pattern matches the description, so a description
\* matching both the Banking & Finance and the Technology vocabulary is
\* classified "Banking & Finance"; it returns "Other" exactly when no
\* category matches.
C4_FirstCategoryWins ==
  extracted.fn = "classifyHKIndustry" =>
    /\ \A k \in 1..Len(industries) :
         (CategoryMatches(k, description)
            /\ \A j \in 1..(k - 1) : ~CategoryMatches(j, description))
           => extracted.val = industries[k].label
    /\ (CategoryMatches(1, description) /\ CategoryMatches(6, description))
         => extracted.val = "Banking & Finance"
    /\ (extracted.val = "Other")
         <=> (\A k \in 1..Len(industries) : ~CategoryMatches(k, description))

\* A description with banking and technology vocabulary was classified
C4_Witness ==
  /\ extracted.fn = "classifyHKIndustry"
  /\ CategoryMatches(1, description)
  /\ CategoryMatches(6, description)
  /\ extracted.val = "Banking & Finance"

(***************************************************************************)
(* Generic board: the JobBoard component, its filter effect and handlers   *)
(***************************************************************************)
\* a.includes(x) on an array
IncludesElem(a, x) == \E i \in 1..Len(a) : a[i] = x

\* hay.includes(needle) on strings
Includes(hay, needle) ==
  \E i \in 1..(Len(hay) - Len(needle) + 1) : SubSeq(hay, i, i + Len(needle) - 1) = needle

\* The set of the elements of an array
Elems(a) == {a[i] : i \in 1..Len(a)}

\* A job of the board.  The others of MockJobs differ from it in one field.
RichJob ==
  [id |-> 0, title |-> <<"D", "e", "v">>, company |-> <<"A", "c", "m", "e">>, description |-> <<"a", "p", "i">>,
   annotations |->
     [techStack |-> <<"React", "Python">>, yearsOfExperience |-> Some(5),
      visaSponsorship |-> Some(TRUE), securityClearance |-> TRUE,
      education |-> <<"Bachelor's">>,
      salary |-> Some([min |-> 100000, max |-> 140000]), location |-> "Remote"]]

\* A job on which every extractor found nothing
BareJob ==
  [id |-> 0, title |-> <<"Q", "A">>, company |-> <<"A", "c", "m", "e">>, description |-> <<"a", "p", "i">>,
   annotations |->
     [techStack |-> <<>>, yearsOfExperience |-> Absent,
      visaSponsorship |-> Absent, securityClearance |-> FALSE,
      education |-> <<>>, salary |-> Absent, location |-> "On-site"]]

JobVariants == <<
  RichJob,
  BareJob,
  [RichJob EXCEPT !.title = <<"Q", "A">>],
  [RichJob EXCEPT !.description = <<"d", "e", "v", "o", "p", "s">>],
  [RichJob EXCEPT !.annotations.techStack = <<>>],
  [RichJob EXCEPT !.annotations.techStack = <<"React">>],
  [RichJob EXCEPT !.annotations.techStack = <<"Python">>],
  [RichJob EXCEPT !.annotations.yearsOfExperience = Absent],
  [RichJob EXCEPT !.annotations.yearsOfExperience = Some(0)],
  [RichJob EXCEPT !.annotations.yearsOfExperience = Some(2)],
  [RichJob EXCEPT !.annotations.yearsOfExperience = Some(3)],
  [RichJob EXCEPT !.annotations.yearsOfExperience = Some(4)],
  [RichJob EXCEPT !.annotations.yearsOfExperience = Some(6)],
  [RichJob EXCEPT !.annotations.visaSponsorship = Absent],
  [RichJob EXCEPT !.annotations.visaSponsorship = Some(FALSE)],
  [RichJob EXCEPT !.annotations.securityClearance = FALSE],
  [RichJob EXCEPT !.annotations.education = <<>>],
  [RichJob EXCEPT !.annotations.education = <<"Master's">>],
  [RichJob EXCEPT !.annotations.salary = Absent],
  [RichJob EXCEPT !.annotations.salary = Some([min |-> 60000, max |-> 99000])],
  [RichJob EXCEPT !.annotations.salary = Some([min |-> 80000, max |-> 120000])],
  [RichJob EXCEPT !.annotations.salary = Some([min |-> 120000, max |-> 160000])],
  [RichJob EXCEPT !.annotations.location = "Hybrid"],
  [RichJob EXCEPT !.annotations.location = "On-site"],
  [BareJob EXCEPT !.annotations.yearsOfExperience = Some(3)],
  [BareJob EXCEPT !.annotations.salary = Some([min |-> 100000, max |-> 100000])]
>>

\* The job list the board holds: id: i + 1
MockJobs == [i \in 1..Len(JobVariants) |-> [JobVariants[i] EXCEPT !.id = i]]

\* a >= b and a <= b on JS numbers, false when one is NaN
Geq(a, b) == \E x \in a : \E y \in b : x >= y
Leq(a, b) == \E x \in a : \E y \in b : x <= y

\* The stages of the filter effect, each on the list the stage before left
BySearch(js, term) ==
  IF term # <<>>
  THEN SelectSeq(js, LAMBDA job :
         \/ Includes(ToLowerCase(job.title), ToLowerCase(term))
         \/ Includes(ToLowerCase(job.company), ToLowerCase(term))
         \/ Includes(ToLowerCase(job.description), ToLowerCase(term)))
  ELSE js

\* The tech stage keeping a job that has any requested tech
ByTechStack_any(js, f) ==
  IF Len(f.techStack) > 0
  THEN SelectSeq(js, LAMBDA job :
         \E i \in 1..Len(f.techStack) :
           IncludesElem(job.annotations.techStack, f.techStack[i]))
  ELSE js

ByTechStack(js, f) ==
  IF Len(f.techStack) > 0
  THEN SelectSeq(js, LAMBDA job :
         \A i \in 1..Len(f.techStack) :
           IncludesElem(job.annotations.techStack, f.techStack[i]))
  ELSE js

\* The min-experience stage with an exclusive bound
ByMinExperience_exclusive(js, f) ==
  IF f.minExperience # <<>>
  THEN SelectSeq(js, LAMBDA job :
         /\ job.annotations.yearsOfExperience # Absent
         /\ \E e \in job.annotations.yearsOfExperience :
              \E m \in ParseInt(f.minExperience) : e > m)
  ELSE js

ByMinExperience(js, f) ==
  IF f.minExperience # <<>>
  THEN SelectSeq(js, LAMBDA job :
         /\ job.annotations.yearsOfExperience # Absent
         /\ Geq(job.annotations.yearsOfExperience, ParseInt(f.minExperience)))
  ELSE js

ByMaxExperience(js, f) ==
  IF f.maxExperience # <<>>
  THEN SelectSeq(js, LAMBDA job :
         /\ job.annotations.yearsOfExperience # Absent
         /\ Leq(job.annotations.yearsOfExperience, ParseInt(f.maxExperience)))
  ELSE js

\* A variant in which "no" keeps every job not known to sponsor
ByVisaSponsorship_unknownPasses(js, f) ==
  IF f.visaSponsorship # ""
  THEN LET wantsVisa == f.visaSponsorship = "yes"
       IN SelectSeq(js, LAMBDA job :
            IF wantsVisa THEN job.annotations.visaSponsorship = Some(TRUE)
            ELSE job.annotations.visaSponsorship # Some(TRUE))
  ELSE js

ByVisaSponsorship(js, f) ==
  IF f.visaSponsorship # ""
  THEN LET wantsVisa == f.visaSponsorship = "yes"
       IN SelectSeq(js, LAMBDA job : job.annotations.visaSponsorship = Some(wantsVisa))
  ELSE js

BySecurityClearance(js, f) ==
  IF f.securityClearance # ""
  THEN LET wantsClearance == f.securityClearance = "yes"
       IN SelectSeq(js, LAMBDA job : job.annotations.securityClearance = wantsClearance)
  ELSE js

ByEducation(js, f) ==
  IF Len(f.education) > 0
  THEN SelectSeq(js, LAMBDA job :
         \E i \in 1..Len(f.education) :
           IncludesElem(job.annotations.education, f.education[i]))
  ELSE js

ByLocation(js, f) ==
  IF f.location # ""
  THEN SelectSeq(js, LAMBDA job : job.annotations.location = f.location)
  ELSE js

\* The salary stage comparing the job's salary max
ByMinSalary_max(js, f) ==
  IF f.minSalary # <<>>
  THEN LET minSal == Times(ParseInt(f.minSalary), 1000)
       IN SelectSeq(js, LAMBDA job :
            /\ job.annotations.salary # Absent
            /\ \E s \in job.annotations.salary : Geq(Some(s.max), minSal))
  ELSE js

ByMinSalary(js, f) ==
  IF f.minSalary # <<>>
  THEN LET minSal == Times(ParseInt(f.minSalary), 1000)
       IN SelectSeq(js, LAMBDA job :
            /\ job.annotations.salary # Absent
            /\ \E s \in job.annotations.salary : Geq(Some(s.min), minSal))
  ELSE js

\* The effect with the salary stage filtering the jobs state, not the list so far
FilterEffect_salaryFromJobs(js, term, f) ==
  IF f.minSalary # <<>>
  THEN ByMinSalary(js, f)
  ELSE ByLocation(ByEducation(BySecurityClearance(ByVisaSponsorship(
         ByMaxExperience(ByMinExperience(ByTechStack(BySearch(js, term), f), f), f), f), f), f), f)

\* useEffect(() => {...}, [jobs, searchTerm, filters]): the value it sets filteredJobs to
FilterEffect(js, term, f) ==
  ByMinSalary(ByLocation(ByEducation(BySecurityClearance(ByVisaSponsorship(
    ByMaxExperience(ByMinExperience(ByTechStack(BySearch(js, term), f), f), f), f), f), f), f), f)

\* The number of filters of the board that constrain
BoardActive(term, f) ==
  Cardinality({k \in 1..9 :
    \/ k = 1 /\ term # <<>>
    \/ k = 2 /\ f.techStack # <<>>
    \/ k = 3 /\ f.minExperience # <<>>
    \/ k = 4 /\ f.maxExperience # <<>>
    \/ k = 5 /\ f.visaSponsorship # ""
    \/ k = 6 /\ f.securityClearance # ""
    \/ k = 7 /\ f.education # <<>>
    \/ k = 8 /\ f.location # ""
    \/ k = 9 /\ f.minSalary # <<>>})

MaxActive == 2

SearchInputs == {<<>>, <<"d", "e", "v">>}
TechInputs == {"React", "Python"}
ExperienceInputs == {<<>>, <<"0">>, <<"3">>, <<"5">>}
YesNoInputs == {"", "yes", "no"}
EducationInputs == {"Bachelor's", "Master's"}
LocationInputs == {"", "Remote", "Hybrid", "On-site"}
MinSalaryInputs == {<<>>, <<"1", "0", "0">>, <<"1", "2", "0">>}

\* prev.includes(x) ? prev.filter(t => t !== x) : [...prev, x]
Toggle(prev, x) ==
  IF IncludesElem(prev, x) THEN SelectSeq(prev, LAMBDA t : t # x) ELSE Append(prev, x)

\* A state change of the component and the effect run it triggers
BoardUpdate(term, f) ==
  /\ jobs # <<>>
  /\ BoardActive(term, f) <= MaxActive
  /\ searchTerm' = term
  /\ filters' = f
  /\ filteredJobs' = FilterEffect(jobs, term, f)
  /\ UNCHANGED <<jobs, extractVars, apiVars, storeVars, crawlVars>>

SetSearchTerm == \E v \in SearchInputs : BoardUpdate(v, filters)
ToggleTechFilter ==
  \E tech \in TechInputs :
    BoardUpdate(searchTerm, [filters EXCEPT !.techStack = Toggle(@, tech)])
SetMinExperience ==
  \E v \in ExperienceInputs : BoardUpdate(searchTerm, [filters EXCEPT !.minExperience = v])
SetMaxExperience ==
  \E v \in ExperienceInputs : BoardUpdate(searchTerm, [filters EXCEPT !.maxExperience = v])
SetVisaSponsorship ==
  \E v \in YesNoInputs : BoardUpdate(searchTerm, [filters EXCEPT !.visaSponsorship = v])
SetSecurityClearance ==
  \E v \in YesNoInputs : BoardUpdate(searchTerm, [filters EXCEPT !.securityClearance = v])
ToggleEducationFilter ==
  \E edu \in EducationInputs :
    BoardUpdate(searchTerm, [filters EXCEPT !.education = Toggle(@, edu)])
SetLocation ==
  \E v \in LocationInputs : BoardUpdate(searchTerm, [filters EXCEPT !.location = v])
SetMinSalary ==
  \E v \in MinSalaryInputs : BoardUpdate(searchTerm, [filters EXCEPT !.minSalary = v])
ClearFilters == BoardUpdate(<<>>, EmptyFilters)

\* The board after the jobs were fetched and the effect ran
InitBoard ==
  /\ jobs = MockJobs
  /\ searchTerm = <<>>
  /\ filters = EmptyFilters
  /\ filteredJobs = FilterEffect(MockJobs, <<>>, EmptyFilters)

NextBoard ==
  \/ SetSearchTerm
  \/ ToggleTechFilter
  \/ SetMinExperience
  \/ SetMaxExperience
  \/ SetVisaSponsorship
  \/ SetSecurityClearance
  \/ ToggleEducationFilter
  \/ SetLocation
  \/ SetMinSalary
  \/ ClearFilters

(***************************************************************************)
(* Regional board: the rows saveToDatabase writes and GET /api/jobs/hk     *)
(***************************************************************************)
\* The value of an optional that is present
Get(o) == CHOOSE x \in o : TRUE

\* Annotations getJobDetails attached to a job.  The others differ from them in one field.
RichAnnotations ==
  [techStack |-> <<<<"R", "e", "a", "c", "t">>, <<"P", "y", "t", "h", "o", "n">>>>, yearsOfExperience |-> Some(5),
   summary |-> Some(<<"b", "u", "i", "l", "d">>),
   salary |-> Some([min |-> 20000, max |-> 40000]),
   workPermitRequired |->
     [permanentResidentRequired |-> FALSE, visaSponsorshipAvailable |-> TRUE,
      workVisaAccepted |-> TRUE],
   location |-> [district |-> Some("Central"), hybrid |-> FALSE],
   languages |-> <<<<"E", "n", "g", "l", "i", "s", "h">>>>, industry |-> "Technology", benefits |-> <<<<"M", "P", "F">>>>]

\* A scraped job: a listing merged with its details
RichHKJob ==
  [jobId |-> "", title |-> Some(<<"D", "e", "v">>), company |-> Some(<<"A", "c", "m", "e">>), briefDescription |-> Some(<<"a", "p", "i">>),
   postedDate |-> Some(3), source |-> "JobsDB", annotations |-> Some(RichAnnotations)]

HKJob(ann) == [RichHKJob EXCEPT !.annotations = Some(ann)]

Permit(pr, sponsorship, accepted) ==
  [permanentResidentRequired |-> pr, visaSponsorshipAvailable |-> sponsorship,
   workVisaAccepted |-> accepted]

HKJobVariants == <<
  RichHKJob,
  [RichHKJob EXCEPT !.annotations = Absent],
  [RichHKJob EXCEPT !.annotations = Absent, !.title = Some(<<"Q", "A">>), !.briefDescription = Absent],
  [RichHKJob EXCEPT !.title = Some(<<"Q", "A">>)],
  [HKJob([RichAnnotations EXCEPT !.summary = Some(<<"a", " ", "d", "e", "v">>)]) EXCEPT !.title = Some(<<"Q", "A">>)],
  [RichHKJob EXCEPT !.postedDate = Absent],
  [RichHKJob EXCEPT !.postedDate = Some(7)],
  HKJob([RichAnnotations EXCEPT !.techStack = <<>>]),
  HKJob([RichAnnotations EXCEPT !.techStack = <<<<"R", "e", "a", "c", "t">>>>]),
  HKJob([RichAnnotations EXCEPT !.techStack = <<<<"G", "o">>>>]),
  HKJob([RichAnnotations EXCEPT !.yearsOfExperience = Absent]),
  HKJob([RichAnnotations EXCEPT !.yearsOfExperience = Some(0)]),
  HKJob([RichAnnotations EXCEPT !.yearsOfExperience = Some(3)]),
  HKJob([RichAnnotations EXCEPT !.yearsOfExperience = Some(4)]),
  HKJob([RichAnnotations EXCEPT !.yearsOfExperience = Some(6)]),
  HKJob([RichAnnotations EXCEPT !.salary = Absent]),
  HKJob([RichAnnotations EXCEPT !.salary = Some([min |-> 15000, max |-> 25000])]),
  HKJob([RichAnnotations EXCEPT !.salary = Some([min |-> 20000, max |-> 30000])]),
  HKJob([RichAnnotations EXCEPT !.salary = Some([min |-> 35000, max |-> 50000])]),
  HKJob([RichAnnotations EXCEPT !.location.district = Absent]),
  HKJob([RichAnnotations EXCEPT !.location.district = Some("Wan Chai")]),
  HKJob([RichAnnotations EXCEPT !.languages = <<>>]),
  HKJob([RichAnnotations EXCEPT !.languages = <<<<"C", "a", "n", "t", "o", "n", "e", "s", "e">>>>]),
  HKJob([RichAnnotations EXCEPT !.industry = "Other"]),
  HKJob([RichAnnotations EXCEPT !.workPermitRequired = Permit(TRUE, FALSE, FALSE)]),
  HKJob([RichAnnotations EXCEPT !.workPermitRequired = Permit(FALSE, FALSE, FALSE)]),
  HKJob([RichAnnotations EXCEPT !.workPermitRequired = Permit(FALSE, FALSE, TRUE)]),
  HKJob([RichAnnotations EXCEPT !.workPermitRequired = Permit(FALSE, TRUE, FALSE)]),
  HKJob([RichAnnotations EXCEPT !.benefits = <<>>]),
  HKJob([RichAnnotations EXCEPT !.benefits = <<<<"D", "e", "n", "t", "a", "l", " ", "C", "o", "v", "e", "r", "a", "g", "e">>>>])
>>

\* The jobId of the i-th scraped job
JobIdOf(i) == <<"job", i>>

\* The batch a scrape returned
HKJobs == [i \in 1..Len(HKJobVariants) |-> [HKJobVariants[i] EXCEPT !.jobId = JobIdOf(i)]]

\* The row the INSERT of saveToDatabase makes of a job: id from the sequence,
\* created_at from new Date(), expired and updated_at from the column defaults,
\* CURRENT_TIMESTAMP being the time the transaction began
RowOf(job, id, date, began) ==
  LET a == job.annotations
      has == a # Absent
      salary == IF has THEN Get(a).salary ELSE Absent
  IN [id |-> id,
      source_id |-> job.jobId,
      title |-> job.title,
      company |-> job.company,
      description |-> job.briefDescription,
      posted_date |-> job.postedDate,
      source |-> job.source,
      tech_stack |-> IF has THEN Get(a).techStack ELSE <<>>,
      years_experience |-> IF has THEN Get(a).yearsOfExperience ELSE Absent,
      visa_sponsorship |->
        IF has THEN Some(Get(a).workPermitRequired.visaSponsorshipAvailable) ELSE Absent,
      salary_min |-> {s.min : s \in salary},
      salary_max |-> {s.max : s \in salary},
      location_type |-> IF has /\ Get(a).location.hybrid THEN "Hybrid" ELSE "On-site",
      summary |-> IF has THEN Get(a).summary ELSE Absent,
      work_permit_required |->
        IF has THEN Some(Get(a).workPermitRequired.permanentResidentRequired) ELSE Absent,
      languages |-> IF has THEN Get(a).languages ELSE <<>>,
      industry |-> IF has THEN Some(Get(a).industry) ELSE Absent,
      benefits |-> IF has THEN Get(a).benefits ELSE <<>>,
      district |-> IF has THEN Get(a).location.district ELSE Absent,
      expired |-> FALSE,
      created_at |-> date,
      updated_at |-> began]

\* The table after the batch HKJobs was saved in a transaction begun at 0, one job a tick
SavedRows == {RowOf(HKJobs[i], i, i, 0) : i \in 1..Len(HKJobs)}

RECURSIVE Like(_, _)
\* s ILIKE p: % is any run, _ any one character, \ takes the next one literally
Like(s, p) ==
  IF p = <<>> THEN s = <<>>
  ELSE IF Head(p) = "%" THEN \E k \in 0..Len(s) : Like(SubSeq(s, k + 1, Len(s)), Tail(p))
  ELSE IF s = <<>> THEN FALSE
  ELSE IF Head(p) = "_" THEN Like(Tail(s), Tail(p))
  ELSE IF Head(p) = "\\" /\ Len(p) > 1
       THEN LowerChar(p[2]) = LowerChar(Head(s)) /\ Like(Tail(s), Tail(Tail(p)))
  ELSE LowerChar(Head(p)) = LowerChar(Head(s)) /\ Like(Tail(s), Tail(p))

\* column ILIKE p is true: not on a NULL
ILike(column, p) == \E s \in column : Like(s, p)

RECURSIVE Split(_, _)
\* s.split(sep) for a one-character sep
Split(s, sep) ==
  IF \E i \in 1..Len(s) : s[i] = sep
  THEN LET i == CHOOSE k \in 1..Len(s) : s[k] = sep /\ \A j \in 1..(k - 1) : s[j] # sep
       IN <<SubSeq(s, 1, i - 1)>> \o Split(SubSeq(s, i + 1, Len(s)), sep)
  ELSE <<s>>

\* a && b on arrays
Overlap(a, b) == Elems(a) \cap Elems(b) # {}

\* The clauses the handler appends to WHERE, each true when it holds of the row
\* or when the handler does not append it
WhereSearch(row, q) ==
  q.search # <<>> =>
    LET p == <<"%">> \o q.search \o <<"%">>
    IN \/ ILike(row.title, p)
       \/ ILike(row.company, p)
       \/ ILike(row.description, p)
       \/ ILike(row.summary, p)

WhereTechStack(row, q) ==
  q.techStack # <<>> => Overlap(row.tech_stack, Split(q.techStack, ","))

WhereMinExperience(row, q) ==
  q.minExperience # <<>> => Geq(row.years_experience, ParseInt(q.minExperience))

WhereMaxExperience(row, q) ==
  q.maxExperience # <<>> => Leq(row.years_experience, ParseInt(q.maxExperience))

WhereMinSalary(row, q) ==
  q.minSalary # <<>> => Geq(row.salary_max, ParseInt(q.minSalary))

WhereMaxSalary(row, q) ==
  q.maxSalary # <<>> => Leq(row.salary_min, ParseInt(q.maxSalary))

WhereDistrict(row, q) == q.district # "" => row.district = Some(q.district)

WhereLanguages(row, q) ==
  q.languages # <<>> => Overlap(row.languages, Split(q.languages, ","))

WhereIndustry(row, q) == q.industry # "" => row.industry = Some(q.industry)

WhereWorkPermit(row, q) ==
  IF q.workPermit = "pr_required" THEN row.work_permit_required = Some(TRUE)
  ELSE IF q.workPermit = "visa_available" THEN row.visa_sponsorship = Some(TRUE)
  ELSE TRUE

WhereBenefits(row, q) ==
  q.benefits # <<>> => Overlap(row.benefits, Split(q.benefits, ","))

\* The WHERE of the query the handler builds
Where(row, q) ==
  /\ row.source = "JobsDB"
  /\ WhereSearch(row, q)
  /\ WhereTechStack(row, q)
  /\ WhereMinExperience(row, q)
  /\ WhereMaxExperience(row, q)
  /\ WhereMinSalary(row, q)
  /\ WhereMaxSalary(row, q)
  /\ WhereDistrict(row, q)
  /\ WhereLanguages(row, q)
  /\ WhereIndustry(row, q)
  /\ WhereWorkPermit(row, q)
  /\ WhereBenefits(row, q)

\* ORDER BY posted_date DESC, created_at DESC: a sorts before b (NULL first)
SortsBefore(a, b) ==
  \/ a.posted_date = Absent /\ b.posted_date # Absent
  \/ \E x \in a.posted_date : \E y \in b.posted_date : x > y
  \/ a.posted_date = b.posted_date /\ a.created_at > b.created_at

\* The rows in the order of the query
OrderBy(rows) ==
  [i \in 1..Cardinality(rows) |->
     CHOOSE r \in rows : Cardinality({x \in rows : SortsBefore(x, r)}) = i - 1]

\* The columns of the SELECT list
Selected(row) ==
  [c \in {"id", "source_id", "title", "company", "summary", "posted_date", "tech_stack",
          "years_experience", "salary_min", "salary_max", "location_type", "languages",
          "industry", "benefits", "district", "work_permit_required", "visa_sponsorship",
          "created_at", "updated_at"} |-> row[c]]

\* The values bound to integer parameters: NaN fails the query
BoundIntegers(q) ==
  <<IF q.minExperience # <<>> THEN ParseInt(q.minExperience) ELSE Some(0),
    IF q.maxExperience # <<>> THEN ParseInt(q.maxExperience) ELSE Some(0),
    IF q.minSalary # <<>> THEN ParseInt(q.minSalary) ELSE Some(0),
    IF q.maxSalary # <<>> THEN ParseInt(q.maxSalary) ELSE Some(0)>>

DefaultPage == 1
DefaultLimit == 20

ServerError == [status |-> 500, data |-> <<>>, page |-> Absent, limit |-> Absent, total |-> Absent]

Min(a, b) == IF a <= b THEN a ELSE b

\* app.get('/api/jobs/hk', ...): the response to a request on a table
SearchResponse(tbl, q) ==
  LET page == IF q.page = Absent THEN Some(DefaultPage) ELSE ParseInt(Get(q.page))
      limit == IF q.limit = Absent THEN Some(DefaultLimit) ELSE ParseInt(Get(q.limit))
      matching == {row \in tbl : Where(row, q)}
  IN IF \/ \E k \in 1..4 : BoundIntegers(q)[k] = Absent
        \/ page = Absent
        \/ limit = Absent
     THEN ServerError                 \* the query fails on a NaN parameter
     ELSE LET l == Get(limit)
              offset == (Get(page) - 1) * l
              sorted == OrderBy(matching)
          IN IF l < 0 \/ offset < 0
             THEN ServerError         \* LIMIT and OFFSET must not be negative
             ELSE IF matching = {}
             THEN ServerError         \* countResult.rows[0] is undefined
             ELSE [status |-> 200,
                   data |-> [i \in 1..(Min(offset + l, Len(sorted)) - Min(offset, Len(sorted))) |->
                               Selected(sorted[offset + i])],
                   page |-> page,
                   limit |-> limit,
                   total |-> Absent]   \* parseInt(undefined): the count query has no count column

MaxQueryActive == 2

\* The number of filter parameters of a request
QueryActive(q) ==
  Cardinality({f \in {"search", "techStack", "minExperience", "maxExperience", "minSalary",
                      "maxSalary", "languages", "benefits"} : q[f] # <<>>}
              \cup {f \in {"district", "industry", "workPermit"} : q[f] # ""})

Queries ==
  [search : {<<>>, <<"d", "e", "v">>, <<"d", "_", "v">>},
   techStack : {<<>>, <<"R", "e", "a", "c", "t">>, <<"R", "e", "a", "c", "t", ",", "G", "o">>, <<"P", "y", "t", "h", "o", "n", ",", "R", "u", "s", "t">>},
   minExperience : {<<>>, <<"3">>, <<"5">>, <<"m", "a", "n", "y">>},
   maxExperience : {<<>>, <<"3">>, <<"5">>},
   minSalary : {<<>>, <<"3", "0", "0", "0", "0">>, <<"4", "5", "0", "0", "0">>},
   maxSalary : {<<>>, <<"2", "0", "0", "0", "0">>},
   district : {"", "Central"},
   languages : {<<>>, <<"C", "a", "n", "t", "o", "n", "e", "s", "e", ",", "M", "a", "n", "d", "a", "r", "i", "n">>},
   industry : {"", "Technology"},
   workPermit : {"", "pr_required", "visa_available", "visa_accepted"},
   benefits : {<<>>, <<"M", "P", "F">>},
   page : {Absent, Some(<<"2">>), Some(<<"0">>)},
   limit : {Absent, Some(<<"5", "0">>), Some(<<"4">>)}]

\* A request is answered
SearchJobsHK ==
  /\ table # {}
  /\ response = NoResponse
  /\ \E q \in Queries :
       /\ QueryActive(q) <= MaxQueryActive
       /\ request' = q
       /\ response' = SearchResponse(table, q)
  /\ UNCHANGED <<extractVars, boardVars, storeVars, crawlVars>>

\* The service with the saved batch in its table
InitApi ==
  /\ IdleStore(SavedRows, Len(HKJobs), Len(HKJobs) + 1)
  /\ request = EmptyQuery
  /\ response = NoResponse

\* The two boards are separate programs: a behaviour is of one of them
InitFilter ==
  /\ NoExtractorCall
  /\ NoCrawl
  /\ \/ InitBoard /\ NoApi /\ NoStore
     \/ NoBoard /\ InitApi

NextFilter == NextBoard \/ SearchJobsHK
SpecFilter == InitFilter /\ [][NextFilter]_vars

(***************************************************************************)
(* Properties of the filters of the two boards                             *)
(***************************************************************************)
\* The board holds jobs: the behaviour is of the generic board
OnBoard == jobs # <<>>

\* A request was answered: the behaviour is of the regional API
Answered == response # NoResponse

\* The ids of the jobs a response returns
Returned(resp) == {resp.data[i].id : i \in 1..Len(resp.data)}

\* The request asks for the first page, long enough for the table, and its numbers parse
CoversAll(q) ==
  /\ q.page = Absent
  /\ \E l \in UNION {ParseInt(x) : x \in q.limit} : l >= Cardinality(table)
  /\ \A k \in 1..4 : BoundIntegers(q)[k] # Absent

BoardFields ==
  {"techStack", "minExperience", "maxExperience", "visaSponsorship", "securityClearance",
   "education", "location", "minSalary"}

QueryFields ==
  {"search", "techStack", "minExperience", "maxExperience", "minSalary", "maxSalary",
   "district", "languages", "industry", "workPermit", "benefits"}

\* The filters with field k alone, the request with parameter k alone
OnlyFilter(f, k) == [EmptyFilters EXCEPT ![k] = f[k]]
OnlyParam(q, k) == [EmptyQuery EXCEPT ![k] = q[k], !.page = q.page, !.limit = q.limit]

\* The jobs in every set of a family of sets
Intersection(family) == {x \in UNION family : \A s \in family : x \in s}

\* The job's salary, in the board's job and in the table's row
BoardSalaryMinAtLeast(job, n) == \E s \in job.annotations.salary : s.min >= n
BoardSalaryMaxAtLeast(job, n) == \E s \in job.annotations.salary : s.max >= n
RowSalaryMaxAtLeast(row, n) == \E x \in row.salary_max : x >= n

\* The minimum a min-salary input of the board asks for: the input is in $k
BoardRequestedMin == Get(ParseInt(filters.minSalary)) * 1000

ScrapedJob(row) == CHOOSE job \in Elems(HKJobs) : job.jobId = row.source_id

\* The work-permit flag of a job that a category of the workPermit filter names
PermitFlag(job, category) ==
  /\ job.annotations # Absent
  /\ LET w == Get(job.annotations).workPermitRequired
     IN CASE category = "pr_required" -> w.permanentResidentRequired
          [] category = "visa_available" -> w.visaSponsorshipAvailable
          [] category = "visa_accepted" -> w.workVisaAccepted

\* C6: for each of pr_required, visa_available and visa_accepted, the search
\* API returns only jobs whose corresponding work-permit flag is true.
C6_WorkPermitExact ==
  (Answered /\ request.workPermit \in {"pr_required", "visa_available", "visa_accepted"}) =>
    \A row \in table :
      row.id \in Returned(response) => PermitFlag(ScrapedJob(row), request.workPermit)

\* C7: for a non-empty requested tech set the generic board keeps a job only
\* if all requested techs are in its techStack, and the regional search API
\* keeps a job iff at least one requested tech is in its tech_stack.
C7_AllVersusAny ==
  /\ (OnBoard /\ filters.techStack # <<>>) =>
       /\ \A job \in Elems(filteredJobs) :
            Elems(filters.techStack) \subseteq Elems(job.annotations.techStack)
       /\ (searchTerm = <<>> /\ filters = OnlyFilter(filters, "techStack")) =>
            \A job \in Elems(jobs) :
              Elems(filters.techStack) \subseteq Elems(job.annotations.techStack)
                => job \in Elems(filteredJobs)
  /\ (Answered /\ request.techStack # <<>>) =>
       /\ \A row \in table :
            row.id \in Returned(response) =>
              Elems(Split(request.techStack, ",")) \cap Elems(row.tech_stack) # {}
       /\ (CoversAll(request) /\ request = OnlyParam(request, "techStack")) =>
            \A row \in table :
              Elems(Split(request.techStack, ",")) \cap Elems(row.tech_stack) # {}
                => row.id \in Returned(response)

\* The API answered a request for two techs with a row that has one of them only
C7_Witness ==
  /\ Answered
  /\ response.status = 200
  /\ Len(Split(request.techStack, ",")) = 2
  /\ \E row \in table :
       /\ row.id \in Returned(response)
       /\ Cardinality(Elems(Split(request.techStack, ",")) \cap Elems(row.tech_stack)) = 1

\* C8: the result of several active filters is the intersection of the results
\* of each filter alone, and an absent filter removes no job.
C8_Conjunctive ==
  /\ OnBoard =>
       /\ Elems(filteredJobs) =
            Intersection({Elems(FilterEffect(jobs, searchTerm, EmptyFilters))}
              \cup {Elems(FilterEffect(jobs, <<>>, OnlyFilter(filters, k))) : k \in BoardFields})
       /\ \A k \in BoardFields :
            filters[k] = EmptyFilters[k] =>
              FilterEffect(jobs, searchTerm, filters)
                = FilterEffect(jobs, searchTerm, [filters EXCEPT ![k] = EmptyFilters[k]])
       /\ (searchTerm = <<>> /\ filters = EmptyFilters) => filteredJobs = jobs
  /\ (Answered /\ CoversAll(request)) =>
       /\ Returned(response) =
            Intersection({{row.id : row \in table}}
              \cup {Returned(SearchResponse(table, OnlyParam(request, k))) : k \in QueryFields})
       /\ QueryActive(request) = 0 => Returned(response) = {row.id : row \in table}

\* The board has two active filters, each of which alone keeps a job the two
\* together drop
C8_Witness ==
  /\ OnBoard
  /\ BoardActive(searchTerm, filters) = 2
  /\ filteredJobs # <<>>
  /\ \A k \in BoardFields :
       filters[k] # EmptyFilters[k] =>
         Elems(FilterEffect(jobs, <<>>, OnlyFilter(filters, k))) # Elems(filteredJobs)
  /\ searchTerm # <<>> =>
       Elems(FilterEffect(jobs, searchTerm, EmptyFilters)) # Elems(filteredJobs)

\* e is within the bounds of the experience inputs that are set
WithinBounds(e, minText, maxText) ==
  /\ minText # <<>> => \E m \in ParseInt(minText) : m <= e
  /\ maxText # <<>> => \E m \in ParseInt(maxText) : e <= m

\* C9: when a min- or max-experience filter is active, no job with unknown
\* experience is in the result, and a job with known experience e passes
\* exactly when requested min <= e and e <= requested max.
C9_ExperienceInclusive ==
  /\ (OnBoard /\ (filters.minExperience # <<>> \/ filters.maxExperience # <<>>)) =>
       /\ \A job \in Elems(filteredJobs) :
            \E e \in job.annotations.yearsOfExperience :
              WithinBounds(e, filters.minExperience, filters.maxExperience)
       /\ (/\ searchTerm = <<>>
           /\ filters = [EmptyFilters EXCEPT !.minExperience = filters.minExperience,
                                             !.maxExperience = filters.maxExperience]) =>
            \A job \in Elems(jobs) :
              (\E e \in job.annotations.yearsOfExperience :
                 WithinBounds(e, filters.minExperience, filters.maxExperience))
                => job \in Elems(filteredJobs)
  /\ (Answered /\ (request.minExperience # <<>> \/ request.maxExperience # <<>>)) =>
       /\ \A row \in table :
            row.id \in Returned(response) =>
              \E e \in row.years_experience :
                WithinBounds(e, request.minExperience, request.maxExperience)
       /\ (/\ CoversAll(request)
           /\ request = [EmptyQuery EXCEPT !.minExperience = request.minExperience,
                                           !.maxExperience = request.maxExperience,
                                           !.page = request.page, !.limit = request.limit]) =>
            \A row \in table :
              (\E e \in row.years_experience :
                 WithinBounds(e, request.minExperience, request.maxExperience))
                => row.id \in Returned(response)

\* The board filters by experience 3 to 5: jobs with 3 and with 5 years are
\* kept, jobs with unknown experience are dropped
C9_Witness ==
  /\ OnBoard
  /\ ParseInt(filters.minExperience) = Some(3)
  /\ ParseInt(filters.maxExperience) = Some(5)
  /\ \E job \in Elems(filteredJobs) : job.annotations.yearsOfExperience = Some(3)
  /\ \E job \in Elems(filteredJobs) : job.annotations.yearsOfExperience = Some(5)
  /\ \E job \in Elems(jobs) \ Elems(filteredJobs) : job.annotations.yearsOfExperience = Absent


(***************************************************************************)
(* The store: saveToDatabase in concurrent transactions                    *)
(***************************************************************************)
MaxTime == 2
MaxId == 4

\* The batches of the savers: a job, a job twice, two jobs in either order,
\* and a batch whose second listing has no title
Batches ==
  LET known == HKJobs[1]
      other == HKJobs[2]
      untitled == [HKJobs[2] EXCEPT !.title = Absent]
  IN {<<known>>, <<other>>, <<known, known>>, <<known, other>>, <<other, known>>,
      <<known, untitled>>}

\* The conflict target of the INSERT: UNIQUE(source_id, source)
RowKey(row) == <<row.source_id, row.source>>
JobKey(job) == <<job.jobId, job.source>>

\* The keys whose rows a saver's open transaction wrote and holds until it ends
Held(q) ==
  IF txn[q].pc = "idle" THEN {}
  ELSE {RowKey(row) : row \in txn[q].inserted}
         \cup {RowKey(row) : row \in {r \in table : r.id \in txn[q].updated}}

\* The INSERT of a key never waits for another transaction
Blocked_never(p, key) == FALSE

\* The INSERT of a key waits while another transaction holds a row of the key
Blocked(p, key) == \E q \in Savers \ {p} : key \in Held(q)

\* The rows a saver's transaction sees, had DO UPDATE set every column to the
\* value of the job that hit the key
Visible_overwrite(p) ==
  {IF row.id \in txn[p].updated
   THEN RowOf(txn[p].batch[CHOOSE k \in 1..Len(txn[p].batch) : JobKey(txn[p].batch[k]) = RowKey(row)],
              row.id, row.created_at, txn[p].start)
   ELSE row : row \in table} \cup txn[p].inserted

\* The rows a saver's transaction sees, had DO UPDATE also set expired = false
Visible_revives(p) ==
  {IF row.id \in txn[p].updated
   THEN [row EXCEPT !.updated_at = txn[p].start, !.expired = FALSE]
   ELSE row : row \in table} \cup txn[p].inserted

\* The rows a saver's transaction sees: the committed rows with its own writes
Visible(p) ==
  {IF row.id \in txn[p].updated THEN [row EXCEPT !.updated_at = txn[p].start] ELSE row :
     row \in table} \cup txn[p].inserted

\* await client.query('BEGIN')
Begin(p) ==
  /\ txn[p].pc = "idle"
  /\ \E batch \in Batches :
       /\ nextId + Len(batch) <= MaxId + 1
       /\ txn' = [txn EXCEPT ![p] = [IdleTxn EXCEPT !.pc = "open", !.batch = batch, !.start = now]]
  /\ UNCHANGED <<table, now, nextId, trending, extractVars, boardVars, apiVars, crawlVars>>

\* await client.query(query, values) for the next job of the batch
InsertJob(p) ==
  /\ txn[p].pc = "open"
  /\ txn[p].next <= Len(txn[p].batch)
  /\ LET job == txn[p].batch[txn[p].next]
         key == JobKey(job)
     IN IF job.title = Absent \/ job.company = Absent
        THEN \* NOT NULL is violated: the statement fails
             txn' = [txn EXCEPT ![p].pc = "failed"]
        ELSE /\ ~Blocked(p, key)
             /\ IF \E row \in table : RowKey(row) = key
                THEN \* DO UPDATE SET updated_at = CURRENT_TIMESTAMP
                     txn' = [txn EXCEPT
                               ![p].updated = @ \cup {row.id : row \in {r \in table : RowKey(r) = key}},
                               ![p].next = @ + 1]
                ELSE IF \E row \in txn[p].inserted : RowKey(row) = key
                THEN \* DO UPDATE on the row this transaction inserted
                     txn' = [txn EXCEPT
                               ![p].inserted = {IF RowKey(row) = key
                                                THEN [row EXCEPT !.updated_at = txn[p].start]
                                                ELSE row : row \in @},
                               ![p].next = @ + 1]
                ELSE txn' = [txn EXCEPT
                               ![p].inserted = @ \cup {RowOf(job, nextId, now, txn[p].start)},
                               ![p].next = @ + 1]
  /\ nextId' = nextId + 1          \* the default of id is taken before any check
  /\ UNCHANGED <<table, now, trending, extractVars, boardVars, apiVars, crawlVars>>

\* Each saver waits for a key the other holds: the server aborts the statement of one
DeadlockAbort(p) ==
  /\ txn[p].pc = "open"
  /\ txn[p].next <= Len(txn[p].batch)
  /\ \E q \in Savers \ {p} :
       /\ txn[q].pc = "open"
       /\ txn[q].next <= Len(txn[q].batch)
       /\ JobKey(txn[p].batch[txn[p].next]) \in Held(q)
       /\ JobKey(txn[q].batch[txn[q].next]) \in Held(p)
  /\ txn' = [txn EXCEPT ![p].pc = "failed"]
  /\ UNCHANGED <<table, now, nextId, trending, extractVars, boardVars, apiVars, crawlVars>>

\* await client.query('COMMIT')
Commit(p) ==
  /\ txn[p].pc = "open"
  /\ txn[p].next > Len(txn[p].batch)
  /\ table' = Visible(p)
  /\ txn' = [txn EXCEPT ![p] = IdleTxn]
  /\ UNCHANGED <<now, nextId, trending, extractVars, boardVars, apiVars, crawlVars>>

\* A rollback that left the rows the transaction had inserted in the table
Rollback_keepsInserted(p) ==
  /\ txn[p].pc = "failed"
  /\ table' = table \cup txn[p].inserted
  /\ txn' = [txn EXCEPT ![p] = IdleTxn]
  /\ UNCHANGED <<now, nextId, trending, extractVars, boardVars, apiVars, crawlVars>>

\* catch: await client.query('ROLLBACK'); throw error; finally: client.release()
Rollback(p) ==
  /\ txn[p].pc = "failed"
  /\ txn' = [txn EXCEPT ![p] = IdleTxn]
  /\ UNCHANGED <<table, now, nextId, trending, extractVars, boardVars, apiVars, crawlVars>>

\* A day passes
Tick ==
  /\ now < MaxTime
  /\ now' = now + 1
  /\ UNCHANGED <<table, nextId, txn, trending, extractVars, boardVars, apiVars, crawlVars>>


(***************************************************************************)
(* GET /api/jobs/hk/trending                                               *)
(***************************************************************************)
\* The INTERVAL literals in the text of the query, and the number of its $n placeholders
TrendingIntervals == <<<<"%", "s", " ", "d", "a", "y", "s">>, <<"%", "s", " ", "d", "a", "y", "s">>, <<"%", "s", " ", "d", "a", "y", "s">>>>
TrendingPlaceholders == 0
TrendingLimit == 20
DefaultDays == 7

\* The days of an interval literal, absent when the server rejects the text
ParseInterval(s) ==
  LET a == SkipSpace(s, 1)
      n == DigitRun(s, a)
      b == SkipSpace(s, a + n)
      unit == ToLowerCase(SubSeq(s, b, Len(s)))
  IN IF n > 0 /\ unit \in {<<"d", "a", "y">>, <<"d", "a", "y", "s">>}
     THEN Some(DigitsValue(SubSeq(s, a, a + n - 1), n))
     ELSE Absent

\* unnest(tech_stack) ... COUNT(*) ... GROUP BY technology, for one technology
TechCount(rows, tech) ==
  Cardinality(UNION {{<<row.id, k>> : k \in {j \in 1..Len(row.tech_stack) : row.tech_stack[j] = tech}} :
                       row \in rows})

\* ROUND(a::numeric / b, 0) for b > 0: halves away from zero
RoundDiv(a, b) ==
  IF a >= 0 THEN (2 * a + b) \div (2 * b) ELSE 0 - ((2 * (0 - a) + b) \div (2 * b))

\* growth_percentage, in hundredths of a percent
GrowthOf(current, previous) ==
  IF previous = 0 THEN 10000 ELSE RoundDiv((current - previous) * 10000, previous)

\* The rows of the join that the WHERE of the query keeps
TrendingRows(tbl, t, i1, i2, i3) ==
  LET source == {row \in tbl : row.source = "JobsDB"}
      current_week == {row \in source : row.created_at > t - i1}
      previous_week == {row \in source : row.created_at > t - i2 /\ row.created_at <= t - i3}
      techs == UNION {Elems(row.tech_stack) : row \in source}
  IN {[technology |-> tech,
       current_count |-> TechCount(current_week, tech),
       previous_count |-> TechCount(previous_week, tech),
       growth_percentage |-> GrowthOf(TechCount(current_week, tech), TechCount(previous_week, tech))] :
        tech \in {x \in techs : TechCount(current_week, x) > 0}}

\* ORDER BY growth_percentage DESC, current_count DESC LIMIT 20: the results the
\* server may give, rows that tie being in any order
TrendingOrders(rows) ==
  LET n == Cardinality(rows)
      sorted == {f \in [1..n -> rows] :
                   /\ \A i, j \in 1..n : i # j => f[i] # f[j]
                   /\ \A i \in 1..(n - 1) :
                        \/ f[i].growth_percentage > f[i + 1].growth_percentage
                        \/ /\ f[i].growth_percentage = f[i + 1].growth_percentage
                           /\ f[i].current_count >= f[i + 1].current_count}
  IN {SubSeq(f, 1, Min(n, TrendingLimit)) : f \in sorted}

\* The results of pgPool.query(text, params): none when the server rejects the query
TrendingResults(tbl, t, intervals, placeholders, params) ==
  IF \E k \in 1..Len(intervals) : ParseInterval(intervals[k]) = Absent
  THEN {}                             \* invalid input syntax for type interval
  ELSE IF placeholders # Len(params)
  THEN {}                             \* the bind message supplies too many parameters
  ELSE TrendingOrders(TrendingRows(tbl, t, Get(ParseInterval(intervals[1])),
                                   Get(ParseInterval(intervals[2])),
                                   Get(ParseInterval(intervals[3]))))

DaysInputs == {Absent, Some(<<"1">>)}

\* The number a days parameter stands for in days * 2
DaysOf(days) == IF days = Absent THEN DefaultDays ELSE Get(ParseInt(Get(days)))

\* app.get('/api/jobs/hk/trending', ...)
GetTrending ==
  /\ \E days \in DaysInputs :
       LET params == <<DaysOf(days), DaysOf(days) * 2, DaysOf(days)>>
           results == TrendingResults(table, now, TrendingIntervals, TrendingPlaceholders, params)
       IN IF results = {}
          THEN trending' = [status |-> 500, days |-> days, at |-> now, rows |-> <<>>]
          ELSE \E rows \in results :
                 trending' = [status |-> 200, days |-> days, at |-> now, rows |-> rows]
  /\ UNCHANGED <<table, now, nextId, txn, extractVars, boardVars, apiVars, crawlVars>>

InitStore == NoExtractorCall /\ NoBoard /\ NoApi /\ NoStore /\ NoCrawl

NextStore ==
  \/ \E p \in Savers : Begin(p)
  \/ \E p \in Savers : InsertJob(p)
  \/ \E p \in Savers : DeadlockAbort(p)
  \/ \E p \in Savers : Commit(p)
  \/ \E p \in Savers : Rollback(p)
  \/ Tick

SpecStore == InitStore /\ [][NextStore]_vars

\* Rows of three jobs, each saved today or yesterday
TrendingSaved ==
  LET saved == {RowOf(HKJobs[i], i, d, d) : i \in {1, 9, 10}, d \in {-1, 0}}
  IN {rows \in SUBSET saved : \A r1, r2 \in rows : r1.id = r2.id => r1 = r2}

\* The trending endpoint on a store that holds some saved rows
InitTrending ==
  /\ NoExtractorCall
  /\ NoCrawl
  /\ NoBoard
  /\ NoApi
  /\ \E rows \in TrendingSaved : IdleStore(rows, 0, Len(HKJobs) + 1)

NextTrending == Tick \/ GetTrending

SpecTrending == InitTrending /\ [][NextTrending]_vars


(***************************************************************************)
(* Properties of the store and of the trending endpoint                    *)
(***************************************************************************)
\* No two rows of the table have the same (source_id, source)
OneRowPerKey ==
  \A r1, r2 \in table : RowKey(r1) = RowKey(r2) => r1 = r2

\* A statement of a saver on a key its transaction sees stored: the rows the
\* transaction sees stay as many, and the row of the key has the timestamp of
\* the transaction
UpsertStep ==
  \A p \in Savers :
    (txn[p].pc = "open" /\ txn'[p].pc = "open" /\ txn'[p].next = txn[p].next + 1) =>
      LET key == JobKey(txn[p].batch[txn[p].next])
      IN (\E row \in Visible(p) : RowKey(row) = key) =>
           /\ Cardinality(Visible(p)') = Cardinality(Visible(p))
           /\ \A row \in Visible(p)' : RowKey(row) = key => row.updated_at = txn[p].start

\* A commit of a saver: a key of the batch that was stored keeps its one row,
\* with the timestamp of the transaction, and the table grows by the new keys
CommitStep ==
  \A p \in Savers :
    (txn[p].pc = "open" /\ txn'[p].pc = "idle") =>
      LET keys == {JobKey(txn[p].batch[k]) : k \in 1..Len(txn[p].batch)}
          stored == {RowKey(row) : row \in table}
      IN /\ \A key \in keys \cap stored :
              /\ {row.id : row \in {r \in table' : RowKey(r) = key}}
                   = {row.id : row \in {r \in table : RowKey(r) = key}}
              /\ \A row \in table' : RowKey(row) = key => row.updated_at = txn[p].start
         /\ Cardinality(table') = Cardinality(table) + Cardinality(keys \ stored)

ClaimedCurrent(tech, t, days) ==
  TechCount({row \in table : row.source = "JobsDB" /\ row.created_at > t - days}, tech)

ClaimedPrevious(tech, t, days) ==
  TechCount({row \in table : /\ row.source = "JobsDB"
                             /\ row.created_at > t - 2 * days
                             /\ row.created_at <= t - days}, tech)

\* C10: in the answer to a trending request, every technology with previous
\* count 0 and current count > 0 has growth_percentage exactly 100, and every
\* technology with previous count p > 0 and current count > 0 has
\* (current - p) / p * 100.
C10_GrowthRule ==
  trending # NoTrending =>
    \A tech \in UNION {Elems(row.tech_stack) : row \in table} :
      LET c == ClaimedCurrent(tech, trending.at, DaysOf(trending.days))
          q == ClaimedPrevious(tech, trending.at, DaysOf(trending.days))
      IN c > 0 =>
           /\ trending.status = 200
           /\ \E i \in 1..Len(trending.rows) :
                /\ trending.rows[i].technology = tech
                /\ IF q = 0
                   THEN trending.rows[i].growth_percentage = 10000
                   ELSE trending.rows[i].growth_percentage * q = (c - q) * 10000


\* The technologies of the stored rows
StoredTechs == UNION {Elems(row.tech_stack) : row \in table}

\* The request that trending answers: its days and the time it was answered
AskedDays == DaysOf(trending.days)
AskedCurrent(tech) == ClaimedCurrent(tech, trending.at, AskedDays)
AskedPrevious(tech) == ClaimedPrevious(tech, trending.at, AskedDays)

\* The technologies the answer lists
Listed == {trending.rows[i].technology : i \in 1..Len(trending.rows)}

\* C11: a trending request is answered with a result in which no technology
\* with current-window count 0 appears, also when its previous-window count
\* is positive, and every row of which has current_count > 0.
C11_CurrentOnly ==
  (trending # NoTrending /\ \E tech \in StoredTechs : AskedCurrent(tech) = 0 /\ AskedPrevious(tech) > 0) =>
    /\ trending.status = 200
    /\ \A tech \in StoredTechs : AskedCurrent(tech) = 0 => tech \notin Listed
    /\ \A i \in 1..Len(trending.rows) : trending.rows[i].current_count > 0

\* Row a of a trending result ranks strictly before row b
RanksBefore(a, b) ==
  \/ a.growth_percentage > b.growth_percentage
  \/ a.growth_percentage = b.growth_percentage /\ a.current_count > b.current_count

\* C12: a trending request is answered with a result of at most 20 rows, in
\* the order of growth_percentage descending and then current_count
\* descending, and no technology the cap leaves out ranks strictly before a
\* listed one.
C12_OrderedAndCapped ==
  (trending # NoTrending /\ Cardinality({tech \in StoredTechs : AskedCurrent(tech) > 0}) >= 2) =>
    /\ trending.status = 200
    /\ Len(trending.rows) <= TrendingLimit
    /\ \A i \in 1..(Len(trending.rows) - 1) : ~RanksBefore(trending.rows[i + 1], trending.rows[i])
    /\ \A left \in TrendingRows(table, trending.at, AskedDays, 2 * AskedDays, AskedDays) :
         left.technology \notin Listed =>
           \A i \in 1..Len(trending.rows) : ~RanksBefore(left, trending.rows[i])

\* C13: a trending request for N days is answered with counts over two
\* windows that do not overlap: the current count of a technology is over the
\* jobs created in the last N days, the previous count over the jobs created
\* in the N days before, so that a job created in the last 2N days is counted
\* in exactly one of the two.
C13_WindowsDisjoint ==
  (trending # NoTrending /\ \E row \in table : row.created_at > trending.at - 2 * AskedDays) =>
    /\ trending.status = 200
    /\ \A i \in 1..Len(trending.rows) :
         /\ trending.rows[i].current_count = AskedCurrent(trending.rows[i].technology)
         /\ trending.rows[i].previous_count = AskedPrevious(trending.rows[i].technology)
    /\ \A tech \in StoredTechs : AskedCurrent(tech) > 0 => tech \in Listed


\* The jobs of a batch that lack a title or a company
Incomplete(batch) ==
  {k \in 1..Len(batch) : batch[k].title = Absent \/ batch[k].company = Absent}

\* C14: a batch with a job whose title or company is absent is not a hard
\* failure: when saveToDatabase is done with it, that job is stored with a
\* null in the missing field and the other jobs of the batch are stored too.
C14_IncompleteJobStored ==
  [][\A p \in Savers :
       (txn[p].pc # "idle" /\ txn'[p].pc = "idle" /\ Incomplete(txn[p].batch) # {}) =>
         \A k \in 1..Len(txn[p].batch) :
           \E row \in table' :
             /\ RowKey(row) = JobKey(txn[p].batch[k])
             /\ k \in Incomplete(txn[p].batch) =>
                  (row.title = txn[p].batch[k].title /\ row.company = txn[p].batch[k].company)]_vars

(***************************************************************************)
(* Regional annotations: extractHKSpecificInfo and what it calls           *)
(***************************************************************************)
\* /permanent\s*resident|HKID|香港永久居民/i
PermanentResidentPattern ==
  Alt(<<Cat(<<Word(<<"p", "e", "r", "m", "a", "n", "e", "n", "t">>), Sp, Word(<<"r", "e", "s", "i", "d", "e", "n", "t">>)>>),
        Word(<<"H", "K", "I", "D">>),
        Word(<<"U+9999", "U+6E2F", "U+6C38", "U+4E45", "U+5C45", "U+6C11">>)>>)

\* /visa\s*sponsorship\s*(?:is\s*)?available|sponsor\s*work\s*visa/i
SponsorshipAvailablePattern ==
  Alt(<<Cat(<<Word(<<"v", "i", "s", "a">>), Sp, Word(<<"s", "p", "o", "n", "s", "o", "r", "s", "h", "i", "p">>), Sp, Opt(Cat(<<Word(<<"i", "s">>), Sp>>)), Word(<<"a", "v", "a", "i", "l", "a", "b", "l", "e">>)>>),
        Cat(<<Word(<<"s", "p", "o", "n", "s", "o", "r">>), Sp, Word(<<"w", "o", "r", "k">>), Sp, Word(<<"v", "i", "s", "a">>)>>)>>)

\* /valid\s*work\s*visa\s*accepted|employment\s*visa\s*holders/i
WorkVisaAcceptedPattern ==
  Alt(<<Cat(<<Word(<<"v", "a", "l", "i", "d">>), Sp, Word(<<"w", "o", "r", "k">>), Sp, Word(<<"v", "i", "s", "a">>), Sp, Word(<<"a", "c", "c", "e", "p", "t", "e", "d">>)>>),
        Cat(<<Word(<<"e", "m", "p", "l", "o", "y", "m", "e", "n", "t">>), Sp, Word(<<"v", "i", "s", "a">>), Sp, Word(<<"h", "o", "l", "d", "e", "r", "s">>)>>)>>)

\* checkWorkPermitRequirements(description)
checkWorkPermitRequirements(s) ==
  [permanentResidentRequired |-> Test(PermanentResidentPattern, TRUE, s),
   visaSponsorshipAvailable |-> Test(SponsorshipAvailablePattern, TRUE, s),
   workVisaAccepted |-> Test(WorkVisaAcceptedPattern, TRUE, s)]

\* HK_PATTERNS.location.districts and HK_PATTERNS.location.mtr
HK_PATTERNS_districts == <<
  <<"C", "e", "n", "t", "r", "a", "l">>,
  <<"A", "d", "m", "i", "r", "a", "l", "t", "y">>,
  <<"W", "a", "n", " ", "C", "h", "a", "i">>,
  <<"C", "a", "u", "s", "e", "w", "a", "y", " ", "B", "a", "y">>,
  <<"T", "s", "i", "m", " ", "S", "h", "a", " ", "T", "s", "u", "i">>,
  <<"M", "o", "n", "g", " ", "K", "o", "k">>,
  <<"K", "w", "u", "n", " ", "T", "o", "n", "g">>,
  <<"Q", "u", "a", "r", "r", "y", " ", "B", "a", "y">>,
  <<"T", "a", "i", " ", "K", "o", "o">>,
  <<"S", "h", "a", " ", "T", "i", "n">>,
  <<"T", "u", "e", "n", " ", "M", "u", "n">>,
  <<"Y", "u", "e", "n", " ", "L", "o", "n", "g">>,
  <<"S", "c", "i", "e", "n", "c", "e", " ", "P", "a", "r", "k">>,
  <<"C", "y", "b", "e", "r", "p", "o", "r", "t">>>>
HK_PATTERNS_mtr == <<
  <<"I", "s", "l", "a", "n", "d", " ", "L", "i", "n", "e">>,
  <<"T", "s", "u", "e", "n", " ", "W", "a", "n", " ", "L", "i", "n", "e">>,
  <<"K", "w", "u", "n", " ", "T", "o", "n", "g", " ", "L", "i", "n", "e">>,
  <<"T", "s", "e", "u", "n", "g", " ", "K", "w", "a", "n", " ", "O", " ", "L", "i", "n", "e">>,
  <<"E", "a", "s", "t", " ", "R", "a", "i", "l", " ", "L", "i", "n", "e">>,
  <<"W", "e", "s", "t", " ", "R", "a", "i", "l", " ", "L", "i", "n", "e">>>>

RECURSIVE FirstNamed(_, _, _)
\* for (const name of names) { if (new RegExp(name, 'i').test(description)) ... break }
FirstNamed(names, s, k) ==
  IF k > Len(names) THEN Absent
  ELSE IF Test(Word(names[k]), TRUE, s) THEN Some(names[k])
  ELSE FirstNamed(names, s, k + 1)

\* /work\s*from\s*home|remote\s*work|在家工作/i
WorkFromHomePattern ==
  Alt(<<Cat(<<Word(<<"w", "o", "r", "k">>), Sp, Word(<<"f", "r", "o", "m">>), Sp, Word(<<"h", "o", "m", "e">>)>>),
        Cat(<<Word(<<"r", "e", "m", "o", "t", "e">>), Sp, Word(<<"w", "o", "r", "k">>)>>),
        Word(<<"U+5728", "U+5BB6", "U+5DE5", "U+4F5C">>)>>)

\* /hybrid\s*(?:work|arrangement)|混合辦公/i
HybridPattern ==
  Alt(<<Cat(<<Word(<<"h", "y", "b", "r", "i", "d">>), Sp, Alt(<<Word(<<"w", "o", "r", "k">>), Word(<<"a", "r", "r", "a", "n", "g", "e", "m", "e", "n", "t">>)>>)>>),
        Word(<<"U+6DF7", "U+5408", "U+8FA6", "U+516C">>)>>)

\* extractHKLocation(description)
extractHKLocation(s) ==
  [district |-> FirstNamed(HK_PATTERNS_districts, s, 1),
   mtrLine |-> FirstNamed(HK_PATTERNS_mtr, s, 1),
   workFromHome |-> Test(WorkFromHomePattern, TRUE, s),
   hybrid |-> Test(HybridPattern, TRUE, s)]

\* The entries of the object literal of extractLanguageRequirements, in insertion order
languagePatterns == <<
  [label |-> <<"E", "n", "g", "l", "i", "s", "h">>,
   \* /(?:fluent|proficient|good|excellent)\s*(?:in\s*)?english|english\s*(?:fluency|proficiency)/i
   pattern |->
     Alt(<<Cat(<<Alt(<<Word(<<"f", "l", "u", "e", "n", "t">>), Word(<<"p", "r", "o", "f", "i", "c", "i", "e", "n", "t">>), Word(<<"g", "o", "o", "d">>), Word(<<"e", "x", "c", "e", "l", "l", "e", "n", "t">>)>>), Sp, Opt(Cat(<<Word(<<"i", "n">>), Sp>>)), Word(<<"e", "n", "g", "l", "i", "s", "h">>)>>),
        Cat(<<Word(<<"e", "n", "g", "l", "i", "s", "h">>), Sp, Alt(<<Word(<<"f", "l", "u", "e", "n", "c", "y">>), Word(<<"p", "r", "o", "f", "i", "c", "i", "e", "n", "c", "y">>)>>)>>)>>)],
  [label |-> <<"C", "a", "n", "t", "o", "n", "e", "s", "e">>,
   \* /cantonese|廣東話|粵語/i
   pattern |->
     Alt(<<Word(<<"c", "a", "n", "t", "o", "n", "e", "s", "e">>),
        Word(<<"U+5EE3", "U+6771", "U+8A71">>),
        Word(<<"U+7CB5", "U+8A9E">>)>>)],
  [label |-> <<"M", "a", "n", "d", "a", "r", "i", "n">>,
   \* /mandarin|putonghua|普通話|國語/i
   pattern |->
     Alt(<<Word(<<"m", "a", "n", "d", "a", "r", "i", "n">>),
        Word(<<"p", "u", "t", "o", "n", "g", "h", "u", "a">>),
        Word(<<"U+666E", "U+901A", "U+8A71">>),
        Word(<<"U+570B", "U+8A9E">>)>>)],
  [label |-> <<"J", "a", "p", "a", "n", "e", "s", "e">>,
   \* /japanese|日語|日文/i
   pattern |->
     Alt(<<Word(<<"j", "a", "p", "a", "n", "e", "s", "e">>),
        Word(<<"U+65E5", "U+8A9E">>),
        Word(<<"U+65E5", "U+6587">>)>>)],
  [label |-> <<"K", "o", "r", "e", "a", "n">>,
   \* /korean|韓語|韓文/i
   pattern |->
     Alt(<<Word(<<"k", "o", "r", "e", "a", "n">>),
        Word(<<"U+97D3", "U+8A9E">>),
        Word(<<"U+97D3", "U+6587">>)>>)]
>>

\* The entries of the object literal of extractHKBenefits, in insertion order
benefitPatterns == <<
  [label |-> <<"M", "P", "F">>,
   \* /MPF|mandatory\s*provident\s*fund|強積金/i
   pattern |->
     Alt(<<Word(<<"M", "P", "F">>),
        Cat(<<Word(<<"m", "a", "n", "d", "a", "t", "o", "r", "y">>), Sp, Word(<<"p", "r", "o", "v", "i", "d", "e", "n", "t">>), Sp, Word(<<"f", "u", "n", "d">>)>>),
        Word(<<"U+5F37", "U+7A4D", "U+91D1">>)>>)],
  [label |-> <<"M", "e", "d", "i", "c", "a", "l", " ", "I", "n", "s", "u", "r", "a", "n", "c", "e">>,
   \* /medical\s*insurance|health\s*insurance|醫療保險/i
   pattern |->
     Alt(<<Cat(<<Word(<<"m", "e", "d", "i", "c", "a", "l">>), Sp, Word(<<"i", "n", "s", "u", "r", "a", "n", "c", "e">>)>>),
        Cat(<<Word(<<"h", "e", "a", "l", "t", "h">>), Sp, Word(<<"i", "n", "s", "u", "r", "a", "n", "c", "e">>)>>),
        Word(<<"U+91AB", "U+7642", "U+4FDD", "U+96AA">>)>>)],
  [label |-> <<"D", "e", "n", "t", "a", "l", " ", "C", "o", "v", "e", "r", "a", "g", "e">>,
   \* /dental|牙科/i
   pattern |->
     Alt(<<Word(<<"d", "e", "n", "t", "a", "l">>),
        Word(<<"U+7259", "U+79D1">>)>>)],
  [label |-> <<"P", "e", "r", "f", "o", "r", "m", "a", "n", "c", "e", " ", "B", "o", "n", "u", "s">>,
   \* /performance\s*bonus|discretionary\s*bonus|花紅/i
   pattern |->
     Alt(<<Cat(<<Word(<<"p", "e", "r", "f", "o", "r", "m", "a", "n", "c", "e">>), Sp, Word(<<"b", "o", "n", "u", "s">>)>>),
        Cat(<<Word(<<"d", "i", "s", "c", "r", "e", "t", "i", "o", "n", "a", "r", "y">>), Sp, Word(<<"b", "o", "n", "u", "s">>)>>),
        Word(<<"U+82B1", "U+7D05">>)>>)],
  [label |-> <<"A", "n", "n", "u", "a", "l", " ", "L", "e", "a", "v", "e">>,
   \* /annual\s*leave|AL|年假/i
   pattern |->
     Alt(<<Cat(<<Word(<<"a", "n", "n", "u", "a", "l">>), Sp, Word(<<"l", "e", "a", "v", "e">>)>>),
        Word(<<"A", "L">>),
        Word(<<"U+5E74", "U+5047">>)>>)],
  [label |-> <<"E", "d", "u", "c", "a", "t", "i", "o", "n", " ", "A", "l", "l", "o", "w", "a", "n", "c", "e">>,
   \* /education\s*allowance|study\s*leave/i
   pattern |->
     Alt(<<Cat(<<Word(<<"e", "d", "u", "c", "a", "t", "i", "o", "n">>), Sp, Word(<<"a", "l", "l", "o", "w", "a", "n", "c", "e">>)>>),
        Cat(<<Word(<<"s", "t", "u", "d", "y">>), Sp, Word(<<"l", "e", "a", "v", "e">>)>>)>>)],
  [label |-> <<"H", "o", "u", "s", "i", "n", "g", " ", "A", "l", "l", "o", "w", "a", "n", "c", "e">>,
   \* /housing\s*allowance|accommodation/i
   pattern |->
     Alt(<<Cat(<<Word(<<"h", "o", "u", "s", "i", "n", "g">>), Sp, Word(<<"a", "l", "l", "o", "w", "a", "n", "c", "e">>)>>),
        Word(<<"a", "c", "c", "o", "m", "m", "o", "d", "a", "t", "i", "o", "n">>)>>)],
  [label |-> <<"G", "y", "m", " ", "M", "e", "m", "b", "e", "r", "s", "h", "i", "p">>,
   \* /gym|fitness|健身/i
   pattern |->
     Alt(<<Word(<<"g", "y", "m">>),
        Word(<<"f", "i", "t", "n", "e", "s", "s">>),
        Word(<<"U+5065", "U+8EAB">>)>>)]
>>

RECURSIVE LabelsMatching(_, _, _)
\* Object.entries(patterns).forEach(([label, pattern]) => { if (pattern.test(description)) list.push(label) })
LabelsMatching(patterns, s, k) ==
  IF k > Len(patterns) THEN <<>>
  ELSE (IF Test(patterns[k].pattern, TRUE, s) THEN <<patterns[k].label>> ELSE <<>>)
         \o LabelsMatching(patterns, s, k + 1)

\* extractLanguageRequirements(description) and extractHKBenefits(description)
extractLanguageRequirements(s) == LabelsMatching(languagePatterns, s, 1)
extractHKBenefits(s) == LabelsMatching(benefitPatterns, s, 1)

\* extractHKSpecificInfo(description): a JS object is a function of its keys
extractHKSpecificInfo(s) ==
  [salary |-> extractHKSalary(s),
   workPermitRequired |-> checkWorkPermitRequirements(s),
   location |-> extractHKLocation(s),
   languages |-> extractLanguageRequirements(s),
   industry |-> classifyHKIndustry(s),
   benefits |-> extractHKBenefits(s)]

(***************************************************************************)
(* The scraper: JobsDBScraper.extractJobListings and getJobDetails         *)
(***************************************************************************)
\* A JS object is a function of its keys; {} has none
EmptyObject == <<>>

\* {...a, ...b}: the keys of both, with the value of b where both have the key
Spread(a, b) ==
  [k \in DOMAIN a \cup DOMAIN b |-> IF k \in DOMAIN b THEN b[k] ELSE a[k]]

\* The identifiers the module jobsdb-integration.js binds at its top level
ModuleScope ==
  {"puppeteer", "axios", "cheerio", "createWorker", "JOBSDB_CONFIG", "HK_TECH_KEYWORDS",
   "HK_PATTERNS", "extractHKSpecificInfo", "extractHKSalary", "checkWorkPermitRequirements",
   "extractHKLocation", "extractLanguageRequirements", "classifyHKIndustry",
   "extractHKBenefits", "JobsDBScraper", "processJobsDBBatch", "saveToDatabase"}

\* What the evaluation of an identifier the module does not bind throws
ReferenceError == [thrown |-> "ReferenceError"]

\* The call name(description) that getJobDetails makes in the scope of its module
Call(name, s) ==
  IF name \notin ModuleScope THEN ReferenceError
  ELSE CASE name = "extractHKSpecificInfo" -> extractHKSpecificInfo(s)

\* The descriptions of the detail pages
DetailTexts == {
  <<"r", "e", "m", "o", "t", "e", " ", "w", "o", "r", "k">>,
  <<"h", "y", "b", "r", "i", "d", " ", "w", "o", "r", "k", " ", "i", "n", " ", "C", "e", "n", "t", "r", "a", "l">>,
  <<"w", "o", "r", "k", " ", "f", "r", "o", "m", " ", "h", "o", "m", "e", ",", " ", "h", "y", "b", "r", "i", "d", " ", "a", "r", "r", "a", "n", "g", "e", "m", "e", "n", "t">>,
  <<"b", "a", "n", "k">>}

\* What a visit of a detail page comes to: browser.newPage() rejects, goto or
\* waitForSelector rejects, or the page is served with its description
Visits ==
  {[outcome |-> "newPage"], [outcome |-> "goto"]}
    \cup {[outcome |-> "served", text |-> s] : s \in DetailTexts}

\* The object the detailPage.evaluate of getJobDetails returns for a served page
DetailsOf(visit) ==
  [fullDescription |-> visit.text, highlights |-> <<>>, requirements |-> <<>>,
   benefits |-> <<>>, additionalInfo |-> EmptyObject]

\* The try block of getJobDetails after newPage(): the value returned, {} from
\* the catch when goto, waitForSelector or the evaluation of an identifier throws
getJobDetails(visit) ==
  IF visit.outcome # "served" THEN EmptyObject
  ELSE
    LET details == DetailsOf(visit)
        hkAnnotations == Call("extractHKSpecificInfo", details.fullDescription)
        techStack == Call("extractTechStack", details.fullDescription)
        yearsOfExperience == Call("extractYearsOfExperience", details.fullDescription)
        education == Call("extractEducation", details.fullDescription)
        summary == Call("summarizeResponsibilities", details.fullDescription)
    IN IF \/ techStack = ReferenceError
          \/ yearsOfExperience = ReferenceError
          \/ education = ReferenceError
          \/ summary = ReferenceError
          \/ hkAnnotations = ReferenceError
       THEN EmptyObject
       ELSE LET generalAnnotations ==
                  [techStack |-> techStack, yearsOfExperience |-> yearsOfExperience,
                   education |-> education, summary |-> summary]
            IN Spread(details, [annotations |-> Spread(generalAnnotations, hkAnnotations)])

\* The job cards of a result page, as page.evaluate returns them: a card
\* without a link has neither url nor jobId
Cards == {
  [title |-> <<"D", "e", "v">>, company |-> <<"A", "c", "m", "e">>, url |-> <<"/", "j", "o", "b", "/", "1">>, jobId |-> <<"1">>],
  [title |-> <<"Q", "A">>, url |-> <<"/", "j", "o", "b", "/", "2">>, jobId |-> <<"2">>, briefDescription |-> <<"a", "p", "i">>],
  [title |-> <<"O", "p", "s">>, company |-> <<"A", "c", "m", "e">>]}

\* At most this many cards on a result page
MaxCards == 2

CardLists == UNION {[1..n -> Cards] : n \in 1..MaxCards}

\* if (job.url)
HasUrl(job) == "url" \in DOMAIN job /\ job.url # <<>>

\* extractJobListings up to the loop: the cards of the page
ListCards ==
  /\ scraper.pc = "idle"
  /\ \E cards \in CardLists :
       scraper' = [pc |-> "loop", cards |-> cards, next |-> 1, visits |-> <<>>,
                   detailedJobs |-> <<>>]
  /\ UNCHANGED <<extractVars, boardVars, apiVars, storeVars, sweep, service>>

\* One iteration of for (const job of jobs): a job with a url is visited and
\* pushed with its details; newPage() rejecting is outside the try of
\* getJobDetails and ends extractJobListings with that rejection
EnhanceJob ==
  /\ scraper.pc = "loop"
  /\ scraper.next <= Len(scraper.cards)
  /\ LET job == scraper.cards[scraper.next]
     IN IF ~HasUrl(job)
        THEN scraper' = [scraper EXCEPT !.next = @ + 1,
                                        !.visits = Append(@, [outcome |-> "none"])]
        ELSE \E visit \in Visits :
               IF visit.outcome = "newPage"
               THEN scraper' = [scraper EXCEPT !.pc = "threw", !.visits = Append(@, visit)]
               ELSE scraper' = [scraper EXCEPT
                                  !.next = @ + 1,
                                  !.visits = Append(@, visit),
                                  !.detailedJobs = Append(@, Spread(job, getJobDetails(visit)))]
  /\ UNCHANGED <<extractVars, boardVars, apiVars, storeVars, sweep, service>>

\* return detailedJobs
ReturnListings ==
  /\ scraper.pc = "loop"
  /\ scraper.next > Len(scraper.cards)
  /\ scraper' = [scraper EXCEPT !.pc = "returned"]
  /\ UNCHANGED <<extractVars, boardVars, apiVars, storeVars, sweep, service>>

InitScrape == NoExtractorCall /\ NoBoard /\ NoApi /\ NoStore /\ NoCrawl

NextScrape == ListCards \/ EnhanceJob \/ ReturnListings

SpecScrape == InitScrape /\ [][NextScrape]_vars

(***************************************************************************)
(* The cron jobs: the hourly freshness check and the daily clean-up        *)
(***************************************************************************)
\* INTERVAL '24 hours', '60 days' and '45 days' in days of the clock, and the LIMIT
StaleDays == 1
CleanupCreatedDays == 60
CleanupUpdatedDays == 45
FreshnessLimit == 100

\* The rows an open transaction of saveToDatabase has updated and so locked: a
\* statement of a sweep on such a row waits for the end of the transaction
Locked(row) == \E p \in Savers : row.id \in txn[p].updated

\* WHERE source = 'JobsDB' AND updated_at < NOW() - INTERVAL '24 hours'
IsStale(row, t) ==
  /\ row.source = "JobsDB"
  /\ row.updated_at < t - StaleDays

\* The orders ORDER BY updated_at ASC allows, rows of equal updated_at in any order
RECURSIVE Orders(_)
Orders(rows) ==
  IF rows = {} THEN {<<>>}
  ELSE UNION {{<<first>> \o rest : rest \in Orders(rows \ {first})} :
                first \in {r \in rows : \A other \in rows :
                                          r.updated_at <= other.updated_at}}

\* const staleJobs = await pgPool.query(SELECT ... LIMIT 100): the source_id of
\* the stale rows; with none the handler is done
SelectStale ==
  /\ sweep.pc = "idle"
  /\ \E order \in Orders({row \in table : IsStale(row, now)}) :
       LET rows == SubSeq(order, 1, Min(Len(order), FreshnessLimit))
       IN sweep' = [sweep EXCEPT
                      !.pc = IF rows = <<>> THEN "idle" ELSE "checking",
                      !.staleJobs = [k \in 1..Len(rows) |-> rows[k].source_id],
                      !.next = 1,
                      !.outcome = "none"]
  /\ UNCHANGED <<extractVars, boardVars, apiVars, storeVars, scraper, service>>

\* UPDATE jobs SET [expired = true,] updated_at = NOW() WHERE source_id = $1 AND source = 'JobsDB'
Refreshed(tbl, id, expire, t) ==
  {IF row.source_id = id /\ row.source = "JobsDB"
   THEN [row EXCEPT !.updated_at = t,
                    !.expired = IF expire THEN TRUE ELSE @]
   ELSE row : row \in tbl}

\* One iteration of for (const job of staleJobs.rows): the detail page of the
\* job is visited and the row is refreshed when getJobDetails returned an
\* object with keys, marked expired otherwise; a rejection of getJobDetails
\* is logged and the row left alone
CheckFreshness ==
  /\ sweep.pc = "checking"
  /\ sweep.next <= Len(sweep.staleJobs)
  /\ LET id == sweep.staleJobs[sweep.next]
     IN /\ \A row \in table : row.source_id = id => ~Locked(row)
        /\ \E visit \in Visits :
             /\ table' = IF visit.outcome = "newPage" THEN table
                         ELSE Refreshed(table, id, DOMAIN getJobDetails(visit) = {}, now)
             /\ sweep' = [sweep EXCEPT !.next = @ + 1, !.outcome = visit.outcome]
  /\ UNCHANGED <<now, nextId, txn, trending, extractVars, boardVars, apiVars, scraper, service>>

\* await scraper.close()
CloseSweep ==
  /\ sweep.pc = "checking"
  /\ sweep.next > Len(sweep.staleJobs)
  /\ sweep' = [NoSweep EXCEPT !.cleaned = sweep.cleaned]
  /\ UNCHANGED <<extractVars, boardVars, apiVars, storeVars, scraper, service>>

\* The clean-up with the first condition alone
IsOld_createdOnly(row, t) ==
  /\ row.source = "JobsDB"
  /\ row.created_at < t - CleanupCreatedDays

\* WHERE source = 'JobsDB' AND created_at < NOW() - INTERVAL '60 days'
\*   AND (updated_at IS NULL OR updated_at < NOW() - INTERVAL '45 days');
\* updated_at is never NULL: the column has a default, the INSERT leaves it
\* out and every UPDATE sets it to a timestamp
IsOld(row, t) ==
  /\ row.source = "JobsDB"
  /\ row.created_at < t - CleanupCreatedDays
  /\ row.updated_at < t - CleanupUpdatedDays

\* The daily clean-up: DELETE FROM jobs WHERE ..., and the result.rowCount it logs
CleanupSweep ==
  /\ \A row \in table : IsOld(row, now) => ~Locked(row)
  /\ table' = {row \in table : ~IsOld(row, now)}
  /\ sweep' = [sweep EXCEPT !.cleaned = Cardinality({row \in table : IsOld(row, now)})]
  /\ UNCHANGED <<now, nextId, txn, trending, extractVars, boardVars, apiVars, scraper, service>>

\* The days of creation and of the last update of the rows stored before day 0
Ages == {<<-60, -45>>, <<-61, -2>>}

\* The rows stored before day 0 for the two keys the batches bring: the first
\* job as the batches have it, the second saved with annotations or without
StoredBefore ==
  LET jobsOf(i) == IF i = 1 THEN {HKJobs[1]}
                   ELSE {HKJobs[2], [HKJobs[1] EXCEPT !.jobId = JobIdOf(2)]}
      agesOf(i) == IF i = 1 THEN {<<-61, -2>>} ELSE Ages
      rowsOf(i) == {RowOf(job, i, age[1], age[2]) : job \in jobsOf(i), age \in agesOf(i)}
  IN {one \cup two : one \in {{}} \cup {{row} : row \in rowsOf(1)},
                     two \in {{}} \cup {{row} : row \in rowsOf(2)}} \ {{}}

InitSweep ==
  /\ NoExtractorCall
  /\ NoBoard
  /\ NoApi
  /\ NoCrawl
  /\ \E rows \in StoredBefore : IdleStore(rows, 0, 3)

\* The sweeps beside one saver and the clock
NextSweep ==
  \/ SelectStale
  \/ CheckFreshness
  \/ CloseSweep
  \/ CleanupSweep
  \/ Begin(1)
  \/ InsertJob(1)
  \/ Commit(1)
  \/ Rollback(1)
  \/ Tick

SpecSweep == InitSweep /\ [][NextSweep]_vars

(***************************************************************************)
(* Properties of the scraper                                               *)
(***************************************************************************)
\* The position in detailedJobs of the job of card k: the cards with a url
\* before it, and itself
PushedAt(k) == Cardinality({j \in 1..k : HasUrl(scraper.cards[j])})

\* Some card with a url was visited and its detail fetch failed
SomeFetchFailed ==
  \E k \in 1..Len(scraper.visits) : scraper.visits[k].outcome \in {"newPage", "goto"}

\* C15: when the detail fetch of one listed job fails, extractJobListings
\* still returns, and its list holds every listed job with a url: a job whose
\* page was served with the fields of its card, the details of its page and
\* annotations, the job whose fetch failed with the fields of its card only.
C15_SiblingsProcessed ==
  (scraper.pc \in {"returned", "threw"} /\ SomeFetchFailed) =>
    /\ scraper.pc = "returned"
    /\ Len(scraper.detailedJobs) = PushedAt(Len(scraper.cards))
    /\ \A k \in 1..Len(scraper.cards) :
         HasUrl(scraper.cards[k]) =>
           LET job == scraper.detailedJobs[PushedAt(k)]
               card == scraper.cards[k]
               visit == scraper.visits[k]
           IN /\ \A key \in DOMAIN card : key \in DOMAIN job /\ job[key] = card[key]
              /\ visit.outcome = "served" =>
                   /\ "annotations" \in DOMAIN job
                   /\ "fullDescription" \in DOMAIN job
                   /\ job.fullDescription = visit.text
              /\ visit.outcome # "served" => job = card

(***************************************************************************)
(* Properties of the sweeps                                                *)
(***************************************************************************)
\* The step is an iteration of the freshness check
FreshnessStep == sweep.pc = "checking" /\ sweep'.next = sweep.next + 1

\* The rows of the job the iteration is about
CheckedRows == {row \in table : row.source_id = sweep.staleJobs[sweep.next] /\ row.source = "JobsDB"}

\* C16: an iteration of the freshness check on a stale job whose detail page
\* is served leaves the job unexpired and changes nothing of its row but
\* updated_at, which becomes the time of the check; only a job whose page is
\* not served is marked expired.
C16_ExpiredOnlyWhenGone ==
  [][FreshnessStep =>
       \A row \in CheckedRows :
         /\ sweep'.outcome = "served" => [row EXCEPT !.updated_at = now] \in table'
         /\ (\E after \in table' : after.id = row.id /\ after.expired /\ ~row.expired) =>
              sweep'.outcome # "served"]_vars

\* The rows of the table that the step removes
Removed == {row \in table : ~\E after \in table' : after.id = row.id}

\* The rows a step re-ingests, with the timestamp of the re-ingestion: the
\* commit of a transaction whose INSERT hit their key, at the CURRENT_TIMESTAMP
\* of that transaction
Reingested ==
  UNION {{<<row, txn[p].start>> : row \in {r \in table : r.id \in txn[p].updated}} :
           p \in {q \in Savers : txn[q].pc = "open" /\ txn'[q].pc = "idle"}}

\* The rows a step freshness-checks, with the time of the check: an iteration
\* of the sweep whose visit came to an end
FreshnessChecked ==
  IF FreshnessStep /\ sweep'.outcome # "newPage" THEN {<<row, now>> : row \in CheckedRows} ELSE {}

\* C17: a step removes a stored job only if it is the daily clean-up, and
\* then only a job created more than 60 days ago whose updated_at is more
\* than 45 days old (updated_at is never null); a job re-ingested or
\* freshness-checked stays stored, and for 45 days from the timestamp of the
\* re-ingestion or check the clean-up does not select it.
C17_OnlyCleanupRemoves ==
  [][/\ \A row \in Removed :
          /\ CleanupSweep
          /\ row.created_at < now - 60
          /\ row.updated_at < now - 45
     /\ \A touched \in Reingested \cup FreshnessChecked :
          \E after \in table' :
            /\ after.id = touched[1].id
            /\ after.updated_at = touched[2]
            /\ \A t \in touched[2]..(touched[2] + 45) : ~IsOld(after, t)]_vars

\* The clean-up has deleted a job, and a job created more than 60 days ago is
\* stored that was re-ingested or freshness-checked since day 0
C17_Witness ==
  /\ sweep.cleaned > 0
  /\ \E row \in table : row.created_at < now - 60 /\ row.updated_at >= 0

\* The columns of a row that hold annotations: those that may be NULL and
\* those that hold a list; NULL and the empty list stand for unknown
NullableColumns ==
  {"years_experience", "visa_sponsorship", "salary_min", "salary_max", "summary",
   "work_permit_required", "industry", "district"}
ListColumns == {"tech_stack", "languages", "benefits"}
AnnotationColumns == NullableColumns \cup ListColumns
Known(row, column) ==
  IF column \in ListColumns THEN row[column] # <<>> ELSE row[column] # Absent

\* C18: no step replaces a known annotation value of a stored job: a row that
\* stays stored, re-ingested or not, keeps every annotation value it knows,
\* whatever the re-ingested job carries for the field.
C18_KnownStaysKnown ==
  [][\A row \in table : \A after \in table' :
       after.id = row.id =>
         \A column \in AnnotationColumns :
           Known(row, column) => after[column] = row[column]]_vars

\* A job stored before day 0 with known annotations has been re-ingested, by
\* a batch that carries the job without annotations, and the batch is committed
C18_Witness ==
  \E row \in table :
    /\ row.source_id = HKJobs[2].jobId
    /\ HKJobs[2].annotations = Absent
    /\ \A column \in AnnotationColumns : Known(row, column)
    /\ row.created_at < 0
    /\ row.updated_at >= 0
    /\ ~row.expired

(***************************************************************************)
(* Properties of the composed annotation and of the stored location type   *)
(***************************************************************************)
\* The keys of the generalAnnotations literal of getJobDetails
GenericKeys == {"techStack", "yearsOfExperience", "education", "summary"}

\* The cards whose detail page was served and whose job was pushed
ServedCards ==
  {k \in 1..Len(scraper.visits) : HasUrl(scraper.cards[k]) /\ scraper.visits[k].outcome = "served"}

\* C19: the job of a served detail page carries an annotation composed of
\* both profiles: every field the regional profile populates carries the
\* regional value, and the fields the regional profile leaves out, those of
\* the generic profile, are present with the generic value.
C19_RegionalOverGeneric ==
  \A k \in ServedCards :
    LET job == scraper.detailedJobs[PushedAt(k)]
        regional == extractHKSpecificInfo(scraper.visits[k].text)
    IN /\ "annotations" \in DOMAIN job
       /\ GenericKeys \subseteq DOMAIN job.annotations
       /\ \A key \in DOMAIN regional :
            key \in DOMAIN job.annotations /\ job.annotations[key] = regional[key]

(***************************************************************************)
(* The location type: extractLocation of the generic board and the value   *)
(* saveToDatabase stores                                                   *)
(***************************************************************************)
\* /remote|work\s*from\s*home|distributed|anywhere/i and /hybrid/i
GenericRemotePattern ==
  Alt(<<Word(<<"r", "e", "m", "o", "t", "e">>), Cat(<<Word(<<"w", "o", "r", "k">>), Sp, Word(<<"f", "r", "o", "m">>), Sp, Word(<<"h", "o", "m", "e">>)>>),
        Word(<<"d", "i", "s", "t", "r", "i", "b", "u", "t", "e", "d">>), Word(<<"a", "n", "y", "w", "h", "e", "r", "e">>)>>)
GenericHybridPattern == Word(<<"h", "y", "b", "r", "i", "d">>)

\* extractLocation(description) of the generic board
extractLocation(s) ==
  IF Test(GenericRemotePattern, TRUE, s) THEN "Remote"
  ELSE IF Test(GenericHybridPattern, TRUE, s) THEN "Hybrid"
  ELSE "On-site"

\* A job as extractJobListings returns it for a detail page with the
\* description, in the fields saveToDatabase reads
ScrapedJobOf(s) ==
  LET details == getJobDetails([outcome |-> "served", text |-> s])
  IN [RichHKJob EXCEPT
        !.annotations = IF "annotations" \in DOMAIN details
                        THEN Some(details.annotations) ELSE Absent]

\* A job whose annotations carry the regional location of the description,
\* as the annotations literal of getJobDetails lays them out
AnnotatedJobOf(s) == HKJob([RichAnnotations EXCEPT !.location = extractHKLocation(s)])

\* The location_type of the row that saveToDatabase makes of a job
StoredLocationType(job) == RowOf(job, 1, 0, 0).location_type

LocationPhrases == {
  <<"r", "e", "m", "o", "t", "e", " ", "w", "o", "r", "k">>,
  <<"w", "o", "r", "k", " ", "f", "r", "o", "m", " ", "h", "o", "m", "e">>,
  <<"R", "e", "m", "o", "t", "e">>,
  <<"h", "y", "b", "r", "i", "d", " ", "w", "o", "r", "k">>,
  <<"H", "y", "b", "r", "i", "d", " ", "a", "r", "r", "a", "n", "g", "e", "m", "e", "n", "t">>,
  <<"h", "y", "b", "r", "i", "d">>,
  <<"o", "f", "f", "i", "c", "e", " ", "i", "n", " ", "C", "e", "n", "t", "r", "a", "l">>,
  <<"U+5728", "U+5BB6", "U+5DE5", "U+4F5C">>,
  <<"U+6DF7", "U+5408", "U+8FA6", "U+516C">>}

InitLocation ==
  /\ description \in TextsOver(LocationPhrases)
  /\ extracted = NotCalled
  /\ NoBoard
  /\ NoApi
  /\ NoStore
  /\ NoCrawl

CallExtractLocation ==
  /\ extracted' = [fn |-> "extractLocation", val |-> extractLocation(description)]
  /\ UNCHANGED <<description, boardVars, apiVars, storeVars, crawlVars>>

\* saveToDatabase on the job the scraper returns for the description
SaveScrapedJob ==
  /\ extracted' = [fn |-> "saveToDatabase", annotated |-> FALSE,
                   val |-> StoredLocationType(ScrapedJobOf(description))]
  /\ UNCHANGED <<description, boardVars, apiVars, storeVars, crawlVars>>

\* saveToDatabase on a job that carries annotations of the description
SaveAnnotatedJob ==
  /\ extracted' = [fn |-> "saveToDatabase", annotated |-> TRUE,
                   val |-> StoredLocationType(AnnotatedJobOf(description))]
  /\ UNCHANGED <<description, boardVars, apiVars, storeVars, crawlVars>>

NextLocation == CallExtractLocation \/ SaveScrapedJob \/ SaveAnnotatedJob

SpecLocation == InitLocation /\ [][NextLocation]_vars

\* The location type the rule gives for terms found or not in a description
LocationRule(remote, hybrid) ==
  IF remote THEN "Remote" ELSE IF hybrid THEN "Hybrid" ELSE "On-site"

\* C20: the location type stored for an ingested job is Remote when its
\* description has remote-indicating terms, otherwise Hybrid when it has
\* hybrid-indicating terms, otherwise On-site, the terms being those of the
\* regional location extractor.
C20_StoredLocationType ==
  extracted.fn = "saveToDatabase" =>
    extracted.val = LocationRule(extractHKLocation(description).workFromHome,
                                 extractHKLocation(description).hybrid)

(***************************************************************************)
(* Generic salary: extractSalaryRange                                      *)
(***************************************************************************)
\* The patterns of extractSalaryRange, each with its i flag
salaryPatterns == <<
  \* /\$(\d{1,3},?\d{3})\s*-\s*\$(\d{1,3},?\d{3})/
  [re |-> Cat(<<Lit("$"), GroupedNumber(1), Sp, Lit("-"), Sp, Lit("$"), GroupedNumber(2)>>),
   ci |-> FALSE],
  \* /\$(\d{1,3}k)\s*-\s*\$(\d{1,3}k)/i
  [re |-> Cat(<<Lit("$"), Grp(1, Cat(<<Dig(1, 3), Lit("k")>>)), Sp, Lit("-"), Sp,
                Lit("$"), Grp(2, Cat(<<Dig(1, 3), Lit("k")>>))>>),
   ci |-> TRUE],
  \* /(\d{1,3},?\d{3})\s*-\s*(\d{1,3},?\d{3})\s*(?:per\s*year|annually)/i
  [re |-> Cat(<<GroupedNumber(1), Sp, Lit("-"), Sp, GroupedNumber(2), Sp,
                Alt(<<Cat(<<Word(<<"p", "e", "r">>), Sp, Word(<<"y", "e", "a", "r">>)>>), Word(<<"a", "n", "n", "u", "a", "l", "l", "y">>)>>)>>),
   ci |-> TRUE]
>>

RECURSIVE FirstSalaryPattern(_, _)
\* for (const pattern of patterns): the first pattern, from k on, that
\* matches the description; 0: none
FirstSalaryPattern(s, k) ==
  IF k > Len(salaryPatterns) THEN 0
  ELSE IF Test(salaryPatterns[k].re, salaryPatterns[k].ci, s) THEN k
  ELSE FirstSalaryPattern(s, k + 1)

RECURSIVE NatToString(_)
\* Number.prototype.toString of a natural number
NatToString(n) ==
  IF n < 10 THEN <<Digits[n + 1]>> ELSE NatToString(n \div 10) \o <<Digits[(n % 10) + 1]>>

\* toString of a JS number that may be NaN
NumberToString(a) == IF a = Absent THEN <<"N", "a", "N">> ELSE NatToString(Get(a))

\* The bound of a range as the loop body reads it from a capture group,
\* without the multiplication for a k
SalaryBound_unscaled(group) == ParseInt(RemoveChars(group, {"k", ","}, TRUE))

\* The bound of a range as the loop body reads it from a capture group
SalaryBound(group) ==
  LET stripped == RemoveChars(group, {"k", ","}, TRUE)
  IN IF IncludesChar(ToLowerCase(group), "k")
     THEN ParseInt(NumberToString(Times(ParseInt(stripped), 1000)))
     ELSE ParseInt(stripped)

\* extractSalaryRange(description): null (Absent) or {min, max}
extractSalaryRange(s) ==
  LET k == FirstSalaryPattern(s, 1)
  IN IF k = 0 THEN Absent
     ELSE LET m == Match(salaryPatterns[k].re, salaryPatterns[k].ci, s)
          IN Some([min |-> SalaryBound(Group(s, m, 1)), max |-> SalaryBound(Group(s, m, 2))])

GenericSalaryPhrases == {
  <<"$", "1", "2", "0", "k", " ", "-", " ", "$", "1", "6", "0", "k">>,
  <<"$", "9", "0", "K", "-", "$", "1", "1", "0", "K">>,
  <<"$", "5", "k", " ", "-", " ", "$", "0", "0", "7", "k">>,
  <<"$", "8", "0", ",", "0", "0", "0", " ", "-", " ", "$", "1", "2", "0", ",", "0", "0", "0">>,
  <<"6", "0", "0", "0", "0", " ", "-", " ", "9", "0", "0", "0", "0", " ", "p", "e", "r", " ", "y", "e", "a", "r">>,
  <<"$", "1", "2", "3", "4", "k", " ", "-", " ", "$", "5", "k">>,
  <<"$", "7", "0", "k">>,
  <<"s", "a", "l", "a", "r", "y">>}

InitSalaryRange ==
  /\ description \in TextsOver(GenericSalaryPhrases)
  /\ extracted = NotCalled
  /\ NoBoard
  /\ NoApi
  /\ NoStore
  /\ NoCrawl

CallExtractSalaryRange ==
  /\ extracted' = [fn |-> "extractSalaryRange", val |-> extractSalaryRange(description)]
  /\ UNCHANGED <<description, boardVars, apiVars, storeVars, crawlVars>>

NextSalaryRange == CallExtractSalaryRange

SpecSalaryRange == InitSalaryRange /\ [][NextSalaryRange]_vars

\* The number X of a capture "Xk": the value of its digits
ThousandsOf(group) == DigitsValue(group, Len(group) - 1)

\* C21: whenever the first matching generic salary pattern of the description
\* is the k-suffixed range "$Xk - $Yk", extractSalaryRange returns
\* min = X * 1000 and max = Y * 1000.
C21_KRangeScaled ==
  (extracted.fn = "extractSalaryRange" /\ FirstSalaryPattern(description, 1) = 2) =>
    LET m == Match(salaryPatterns[2].re, TRUE, description)
    IN extracted.val = Some([min |-> Some(ThousandsOf(Group(description, m, 1)) * 1000),
                             max |-> Some(ThousandsOf(Group(description, m, 2)) * 1000)])

\* extractSalaryRange was called with "$120k - $160k" and returned 120000 to 160000
C21_Witness ==
  /\ extracted.fn = "extractSalaryRange"
  /\ description = <<"$", "1", "2", "0", "k", " ", "-", " ", "$", "1", "6", "0", "k">>
  /\ extracted.val = Some([min |-> Some(120000), max |-> Some(160000)])

\* ---------------------------------------------------------------------------
\* The yes/no filters of the board
\* ---------------------------------------------------------------------------

\* What the effect keeps when field k is left unspecified and the rest is as set
WithoutField(k) == FilterEffect(jobs, searchTerm, [filters EXCEPT ![k] = ""])

\* The jobs the other filters keep and whose annotation is the value asked for
KeptWithVisa(b) ==
  {job \in Elems(WithoutField("visaSponsorship")) : job.annotations.visaSponsorship = Some(b)}
KeptWithClearance(b) ==
  {job \in Elems(WithoutField("securityClearance")) : job.annotations.securityClearance = b}

\* C22: the visaSponsorship and securityClearance filters use exact boolean
\* equality: with yes only the jobs whose annotation is true pass, with no
\* only the jobs whose annotation is false pass, a job with unknown visa
\* sponsorship passes neither, and with the filter unspecified the field
\* leaves the job set as the other filters made it.
C22_ExactBoolean ==
  OnBoard =>
    /\ filters.visaSponsorship = "yes" => Elems(filteredJobs) = KeptWithVisa(TRUE)
    /\ filters.visaSponsorship = "no" => Elems(filteredJobs) = KeptWithVisa(FALSE)
    /\ filters.visaSponsorship # "" =>
         \A job \in Elems(filteredJobs) : job.annotations.visaSponsorship # Absent
    /\ filters.visaSponsorship = "" =>
         /\ ByVisaSponsorship(jobs, filters) = jobs
         /\ \A b \in {TRUE, FALSE} : KeptWithVisa(b) \subseteq Elems(filteredJobs)
    /\ filters.securityClearance = "yes" => Elems(filteredJobs) = KeptWithClearance(TRUE)
    /\ filters.securityClearance = "no" => Elems(filteredJobs) = KeptWithClearance(FALSE)
    /\ filters.securityClearance = "" =>
         /\ BySecurityClearance(jobs, filters) = jobs
         /\ \A b \in {TRUE, FALSE} : KeptWithClearance(b) \subseteq Elems(filteredJobs)
    /\ BoardActive(searchTerm, filters) = 0 => filteredJobs = jobs

\* The board filters by "no" visa sponsorship while the other filters keep a
\* job of unknown sponsorship, a sponsoring job and a job that does not sponsor
C22_Witness ==
  /\ OnBoard
  /\ filters.visaSponsorship = "no"
  /\ filteredJobs # <<>>
  /\ \E job \in Elems(WithoutField("visaSponsorship")) : job.annotations.visaSponsorship = Absent
  /\ \E job \in Elems(WithoutField("visaSponsorship")) : job.annotations.visaSponsorship = Some(TRUE)

(***************************************************************************)
(* The extractors called with null, undefined or the empty string          *)
(***************************************************************************)
\* const techKeywords = [...]
techKeywords == <<
  <<"J", "a", "v", "a", "S", "c", "r", "i", "p", "t">>, <<"T", "y", "p", "e", "S", "c", "r", "i", "p", "t">>, <<"R", "e", "a", "c", "t">>, <<"A", "n", "g", "u", "l", "a", "r">>, <<"V", "u", "e">>, <<"N", "o", "d", "e", ".", "j", "s">>, <<"P", "y", "t", "h", "o", "n">>,
  <<"J", "a", "v", "a">>, <<"C", "+", "+">>, <<"C", "#">>, <<".", "N", "E", "T">>, <<"R", "u", "b", "y">>, <<"R", "a", "i", "l", "s">>, <<"P", "H", "P">>, <<"L", "a", "r", "a", "v", "e", "l">>, <<"D", "j", "a", "n", "g", "o">>,
  <<"F", "l", "a", "s", "k">>, <<"S", "p", "r", "i", "n", "g">>, <<"E", "x", "p", "r", "e", "s", "s">>, <<"M", "o", "n", "g", "o", "D", "B">>, <<"P", "o", "s", "t", "g", "r", "e", "S", "Q", "L">>, <<"M", "y", "S", "Q", "L">>, <<"R", "e", "d", "i", "s">>,
  <<"D", "o", "c", "k", "e", "r">>, <<"K", "u", "b", "e", "r", "n", "e", "t", "e", "s">>, <<"A", "W", "S">>, <<"A", "z", "u", "r", "e">>, <<"G", "C", "P">>, <<"G", "r", "a", "p", "h", "Q", "L">>, <<"R", "E", "S", "T", " ", "A", "P", "I">>,
  <<"M", "a", "c", "h", "i", "n", "e", " ", "L", "e", "a", "r", "n", "i", "n", "g">>, <<"T", "e", "n", "s", "o", "r", "F", "l", "o", "w">>, <<"P", "y", "T", "o", "r", "c", "h">>, <<"S", "c", "i", "k", "i", "t", "-", "l", "e", "a", "r", "n">>, <<"P", "a", "n", "d", "a", "s">>,
  <<"S", "w", "i", "f", "t">>, <<"K", "o", "t", "l", "i", "n">>, <<"R", "e", "a", "c", "t", " ", "N", "a", "t", "i", "v", "e">>, <<"F", "l", "u", "t", "t", "e", "r">>, <<"G", "o">>, <<"R", "u", "s", "t">>, <<"S", "c", "a", "l", "a">>,
  <<"E", "l", "a", "s", "t", "i", "c", "s", "e", "a", "r", "c", "h">>, <<"K", "a", "f", "k", "a">>, <<"R", "a", "b", "b", "i", "t", "M", "Q">>, <<"J", "e", "n", "k", "i", "n", "s">>, <<"G", "i", "t">>, <<"C", "I", "/", "C", "D">> >>

\* extractTechStack(description): the keywords that lowerDesc includes, in
\* the order of the list; the list has no keyword twice, so the Set keeps all
extractTechStack(s) ==
  LET lowerDesc == ToLowerCase(s)
  IN SelectSeq(techKeywords, LAMBDA tech : Includes(lowerDesc, ToLowerCase(tech)))

\* (\d+)\+?\s*years?\s*
CountOfYears == Cat(<<Grp(1, Plus(Cls(DigitSet))), Opt(Lit("+")), Sp, Word(<<"y", "e", "a", "r">>), Opt(Lit("s")), Sp>>)

\* The patterns of extractYearsOfExperience
experiencePatterns == <<
  \* /(\d+)\+?\s*years?\s*(?:of\s*)?experience/i
  Cat(<<CountOfYears, Opt(Cat(<<Word(<<"o", "f">>), Sp>>)), Word(<<"e", "x", "p", "e", "r", "i", "e", "n", "c", "e">>)>>),
  \* /(\d+)\+?\s*years?\s*(?:of\s*)?professional/i
  Cat(<<CountOfYears, Opt(Cat(<<Word(<<"o", "f">>), Sp>>)), Word(<<"p", "r", "o", "f", "e", "s", "s", "i", "o", "n", "a", "l">>)>>),
  \* /(\d+)\+?\s*years?\s*in/i
  Cat(<<CountOfYears, Word(<<"i", "n">>)>>),
  \* /minimum\s*(\d+)\s*years?/i
  Cat(<<Word(<<"m", "i", "n", "i", "m", "u", "m">>), Sp, Grp(1, Plus(Cls(DigitSet))), Sp, Word(<<"y", "e", "a", "r">>), Opt(Lit("s"))>>),
  \* /at\s*least\s*(\d+)\s*years?/i
  Cat(<<Word(<<"a", "t">>), Sp, Word(<<"l", "e", "a", "s", "t">>), Sp, Grp(1, Plus(Cls(DigitSet))), Sp, Word(<<"y", "e", "a", "r">>), Opt(Lit("s"))>>) >>

\* extractYearsOfExperience(description): null (Absent) or parseInt(match[1])
extractYearsOfExperience(s) ==
  LET k == FirstMatching(experiencePatterns, TRUE, s, 1)
  IN IF k = 0 THEN Absent ELSE ParseInt(Group(s, Match(experiencePatterns[k], TRUE, s), 1))

\* The patterns of checkSecurityClearance
clearancePatterns == <<
  \* /security\s*clearance\s*(?:is\s*)?required/i
  Cat(<<Word(<<"s", "e", "c", "u", "r", "i", "t", "y">>), Sp, Word(<<"c", "l", "e", "a", "r", "a", "n", "c", "e">>), Sp, Opt(Cat(<<Word(<<"i", "s">>), Sp>>)), Word(<<"r", "e", "q", "u", "i", "r", "e", "d">>)>>),
  \* /must\s*have\s*(?:active\s*)?security\s*clearance/i
  Cat(<<Word(<<"m", "u", "s", "t">>), Sp, Word(<<"h", "a", "v", "e">>), Sp, Opt(Cat(<<Word(<<"a", "c", "t", "i", "v", "e">>), Sp>>)),
        Word(<<"s", "e", "c", "u", "r", "i", "t", "y">>), Sp, Word(<<"c", "l", "e", "a", "r", "a", "n", "c", "e">>)>>),
  \* /secret\s*clearance/i
  Cat(<<Word(<<"s", "e", "c", "r", "e", "t">>), Sp, Word(<<"c", "l", "e", "a", "r", "a", "n", "c", "e">>)>>),
  \* /top\s*secret/i
  Cat(<<Word(<<"t", "o", "p">>), Sp, Word(<<"s", "e", "c", "r", "e", "t">>)>>),
  \* /ts\/sci/i
  Word(<<"t", "s", "/", "s", "c", "i">>),
  \* /clearance\s*required/i
  Cat(<<Word(<<"c", "l", "e", "a", "r", "a", "n", "c", "e">>), Sp, Word(<<"r", "e", "q", "u", "i", "r", "e", "d">>)>>) >>

\* checkSecurityClearance(description): patterns.some(pattern => pattern.test(description))
checkSecurityClearance(s) == \E k \in 1..Len(clearancePatterns) : Test(clearancePatterns[k], TRUE, s)

\* \s*(?:degree|of)?
DegreeOrOf == Cat(<<Sp, Opt(Alt(<<Word(<<"d", "e", "g", "r", "e", "e">>), Word(<<"o", "f">>)>>))>>)

\* The entries of the object literal of extractEducation, in insertion order
educationPatterns == <<
  \* /bachelor'?s?\s*(?:degree|of)?/i
  [label |-> <<"B", "a", "c", "h", "e", "l", "o", "r", "'", "s">>,
   pattern |-> Cat(<<Word(<<"b", "a", "c", "h", "e", "l", "o", "r">>), Opt(Lit("'")), Opt(Lit("s")), DegreeOrOf>>)],
  \* /master'?s?\s*(?:degree|of)?/i
  [label |-> <<"M", "a", "s", "t", "e", "r", "'", "s">>,
   pattern |-> Cat(<<Word(<<"m", "a", "s", "t", "e", "r">>), Opt(Lit("'")), Opt(Lit("s")), DegreeOrOf>>)],
  \* /ph\.?d|doctorate/i
  [label |-> <<"P", "h", "D">>,
   pattern |-> Alt(<<Cat(<<Word(<<"p", "h">>), Opt(Lit(".")), Lit("d")>>), Word(<<"d", "o", "c", "t", "o", "r", "a", "t", "e">>)>>)],
  \* /computer\s*science|cs\s*degree/i
  [label |-> <<"C", "o", "m", "p", "u", "t", "e", "r", " ", "S", "c", "i", "e", "n", "c", "e">>,
   pattern |-> Alt(<<Cat(<<Word(<<"c", "o", "m", "p", "u", "t", "e", "r">>), Sp, Word(<<"s", "c", "i", "e", "n", "c", "e">>)>>),
                     Cat(<<Word(<<"c", "s">>), Sp, Word(<<"d", "e", "g", "r", "e", "e">>)>>)>>)],
  \* /engineering\s*degree/i
  [label |-> <<"E", "n", "g", "i", "n", "e", "e", "r", "i", "n", "g">>,
   pattern |-> Cat(<<Word(<<"e", "n", "g", "i", "n", "e", "e", "r", "i", "n", "g">>), Sp, Word(<<"d", "e", "g", "r", "e", "e">>)>>)],
  \* /mathematics|math\s*degree/i
  [label |-> <<"M", "a", "t", "h", "e", "m", "a", "t", "i", "c", "s">>,
   pattern |-> Alt(<<Word(<<"m", "a", "t", "h", "e", "m", "a", "t", "i", "c", "s">>), Cat(<<Word(<<"m", "a", "t", "h">>), Sp, Word(<<"d", "e", "g", "r", "e", "e">>)>>)>>)] >>

\* extractEducation(description)
extractEducation(s) == LabelsMatching(educationPatterns, s, 1)

\* The value an extractor is called with: null, undefined or a string
Null == [kind |-> "null", text |-> <<>>]
Undefined == [kind |-> "undefined", text |-> <<>>]
String(s) == [kind |-> "string", text |-> s]

\* ToString(argument), which RegExp.prototype.test applies to what it is given
StringOf(arg) ==
  CASE arg.kind = "null" -> <<"n", "u", "l", "l">>
    [] arg.kind = "undefined" -> <<"u", "n", "d", "e", "f", "i", "n", "e", "d">>
    [] OTHER -> arg.text

\* The extractors whose first use of description is a method call on it:
\* description.match(pattern) in extractHKSalary, extractYearsOfExperience and
\* extractSalaryRange, description.toLowerCase() in extractTechStack;
\* extractHKSpecificInfo calls extractHKSalary first.  The others only hand
\* description to pattern.test.
MethodCallers ==
  {"extractHKSpecificInfo", "extractHKSalary", "extractTechStack", "extractYearsOfExperience",
   "extractSalaryRange"}

PatternTesters ==
  {"checkWorkPermitRequirements", "extractHKLocation", "extractLanguageRequirements",
   "classifyHKIndustry", "extractHKBenefits", "checkVisaSponsorship", "checkSecurityClearance",
   "extractEducation", "extractLocation"}

Extractors == MethodCallers \cup PatternTesters

\* What extractor fn returns for the string s
Apply(fn, s) ==
  CASE fn = "extractHKSpecificInfo" -> extractHKSpecificInfo(s)
    [] fn = "extractHKSalary" -> extractHKSalary(s)
    [] fn = "checkWorkPermitRequirements" -> checkWorkPermitRequirements(s)
    [] fn = "extractHKLocation" -> extractHKLocation(s)
    [] fn = "extractLanguageRequirements" -> extractLanguageRequirements(s)
    [] fn = "classifyHKIndustry" -> classifyHKIndustry(s)
    [] fn = "extractHKBenefits" -> extractHKBenefits(s)
    [] fn = "extractTechStack" -> extractTechStack(s)
    [] fn = "extractYearsOfExperience" -> extractYearsOfExperience(s)
    [] fn = "checkVisaSponsorship" -> checkVisaSponsorship(s)
    [] fn = "checkSecurityClearance" -> checkSecurityClearance(s)
    [] fn = "extractEducation" -> extractEducation(s)
    [] fn = "extractSalaryRange" -> extractSalaryRange(s)
    [] fn = "extractLocation" -> extractLocation(s)

\* The call fn(arg): reading a property of null or undefined throws a TypeError
Invoke(fn, arg) ==
  IF fn \in MethodCallers /\ arg.kind # "string"
  THEN [fn |-> fn, threw |-> "TypeError"]
  ELSE [fn |-> fn, threw |-> "none", val |-> Apply(fn, StringOf(arg))]

TotalityPhrases == {
  <<"5", "+", " ", "y", "e", "a", "r", "s", " ", "o", "f", " ", "e", "x", "p", "e", "r", "i", "e", "n", "c", "e", " ", "w", "i", "t", "h", " ", "R", "e", "a", "c", "t">>,
  <<"B", "a", "c", "h", "e", "l", "o", "r", "'", "s", " ", "d", "e", "g", "r", "e", "e", ",", " ", "t", "o", "p", " ", "s", "e", "c", "r", "e", "t", " ", "c", "l", "e", "a", "r", "a", "n", "c", "e">>,
  <<"$", "1", "2", "0", "k", " ", "-", " ", "$", "1", "6", "0", "k", ",", " ", "r", "e", "m", "o", "t", "e", ",", " ", "w", "e", " ", "s", "p", "o", "n", "s", "o", "r">>,
  <<"H", "K", "$", "3", "0", ",", "0", "0", "0", " ", "-", " ", "H", "K", "$", "4", "0", ",", "0", "0", "0", " ", "M", "P", "F", " ", "C", "e", "n", "t", "r", "a", "l">>,
  <<"n", "u", "l", "l">>,
  <<"u", "n", "d", "e", "f", "i", "n", "e", "d">>}

Arguments == {Null, Undefined, String(<<>>)} \cup {String(p) : p \in TotalityPhrases}

InitTotality ==
  /\ description \in Arguments
  /\ extracted = NotCalled
  /\ NoBoard
  /\ NoApi
  /\ NoStore
  /\ NoCrawl

CallExtractor ==
  \E fn \in Extractors :
    /\ extracted' = Invoke(fn, description)
    /\ UNCHANGED <<description, boardVars, apiVars, storeVars, crawlVars>>

NextTotality == CallExtractor

SpecTotality == InitTotality /\ [][NextTotality]_vars

NoWorkPermit ==
  [permanentResidentRequired |-> FALSE, visaSponsorshipAvailable |-> FALSE, workVisaAccepted |-> FALSE]
NoHKLocation == [district |-> Absent, mtrLine |-> Absent, workFromHome |-> FALSE, hybrid |-> FALSE]

\* The value of an extractor that found nothing
IsNeutral(fn, val) ==
  CASE fn = "extractHKSpecificInfo" ->
         val = [salary |-> Absent, workPermitRequired |-> NoWorkPermit, location |-> NoHKLocation,
                languages |-> <<>>, industry |-> "Other", benefits |-> <<>>]
    [] fn \in {"extractHKSalary", "extractYearsOfExperience", "checkVisaSponsorship", "extractSalaryRange"} ->
         val = Absent
    [] fn = "checkWorkPermitRequirements" -> val = NoWorkPermit
    [] fn = "extractHKLocation" -> val = NoHKLocation
    [] fn \in {"extractLanguageRequirements", "extractHKBenefits", "extractTechStack", "extractEducation"} ->
         val = <<>>
    [] fn = "classifyHKIndustry" -> val = "Other"
    [] fn = "checkSecurityClearance" -> val = FALSE
    [] fn = "extractLocation" -> val = "On-site"

\* The description is null, undefined or the empty string
AbsentOrEmpty == description \in {Null, Undefined, String(<<>>)}

\* C23: every extractor is total: called with an absent (null or undefined)
\* or empty description, each of the generic and regional extractors returns
\* its neutral value and never throws.
C23_ExtractorsTotal ==
  (extracted # NotCalled /\ AbsentOrEmpty) =>
    /\ extracted.threw = "none"
    /\ IsNeutral(extracted.fn, extracted.val)

\* What holds of the code: on the empty string every extractor returns its
\* neutral value, and on null and undefined the pattern testers do
TotalOnStrings ==
  (extracted # NotCalled /\ AbsentOrEmpty) =>
    IF description.kind = "string" \/ extracted.fn \in PatternTesters
    THEN extracted.threw = "none" /\ IsNeutral(extracted.fn, extracted.val)
    ELSE extracted.threw = "TypeError"

\* ---------------------------------------------------------------------------
\* Pagination of the search API
\* ---------------------------------------------------------------------------

\* parseInt(page) and parseInt(limit) of a request, with the defaults
PageOf(q) == IF q.page = Absent THEN Some(DefaultPage) ELSE ParseInt(Get(q.page))
LimitOf(q) == IF q.limit = Absent THEN Some(DefaultLimit) ELSE ParseInt(Get(q.limit))

\* The request's numbers parse, and its page and limit are at least 1
Paged(q) ==
  /\ \A k \in 1..4 : BoundIntegers(q)[k] # Absent
  /\ \E p \in PageOf(q) : p >= 1
  /\ \E l \in LimitOf(q) : l >= 1

\* The ids of the rows that match the filters of the request
Matching(q) == {row.id : row \in {r \in table : Where(r, q)}}

\* The ids on page p of the request
PageIds(q, p) == Returned(SearchResponse(table, [q EXCEPT !.page = Some(NatToString(p))]))

\* ceil(total / limit)
PagesFor(total, limit) == (total + limit - 1) \div limit

\* The response holds at most limit rows, those from offset (page-1)*limit
\* on of the matching rows, and the pages 1..ceil(total/limit) hold every
\* matching row exactly once
PagesPartition ==
  (Answered /\ Paged(request)) =>
    LET limit == Get(LimitOf(request))
        offset == (Get(PageOf(request)) - 1) * limit
        total == Cardinality(Matching(request))
        pages == 1..PagesFor(total, limit)
    IN /\ Len(response.data) = Min(limit, IF total > offset THEN total - offset ELSE 0)
       /\ Returned(response) \subseteq Matching(request)
       /\ UNION {PageIds(request, p) : p \in pages} = Matching(request)
       /\ \A p1, p2 \in pages : p1 # p2 => PageIds(request, p1) \cap PageIds(request, p2) = {}

\* C24: for every FilterSpec, page >= 1 and limit >= 1 over an unchanged
\* store, the search API returns at most limit matching jobs starting at
\* offset (page-1)*limit, reports a total equal to the number of all jobs
\* matching the filters regardless of page and limit, and the pages
\* 1..ceil(total/limit) together contain every matching job exactly once.
C24_Pagination ==
  (Answered /\ Paged(request)) =>
    /\ response.status = 200
    /\ response.total = Some(Cardinality(Matching(request)))
    /\ PagesPartition

(***************************************************************************)
(* The service: the scrape triggers, the running flag, the stats cache     *)
(***************************************************************************)
MaxBatches == 2

\* The handler of trigger t has set the running flag and not yet deleted it
InProgress(t) == service.pc[t] \in {"scraping", "saved", "finally"}

Max(a, b) == IF a >= b THEN a ELSE b

\* The step of a handler: the rest of the program stands still
ServiceStep(next) ==
  /\ service' = next
  /\ UNCHANGED <<extractVars, boardVars, apiVars, storeVars, scraper, sweep>>

\* const isRunning = await redis.get('jobsdb:scraping:running'), of the POST
\* handler and of the scheduled run
CheckRunning(t) ==
  /\ service.pc[t] = "idle"
  /\ ServiceStep([service EXCEPT !.pc[t] = "checked", !.isRunning[t] = service.flag])

\* POST: if (isRunning) return res.status(409).json(...): the return is in
\* the outer try, which has no finally
AnswerConflict(t) ==
  /\ t # "cron"
  /\ service.pc[t] = "checked"
  /\ service.isRunning[t]
  /\ ServiceStep([service EXCEPT !.pc[t] = "conflict", !.isRunning[t] = FALSE])

\* The leaving of the scheduled run when isRunning: the return is inside the
\* try whose finally runs redis.del('jobsdb:scraping:running')
SkipRun ==
  /\ service.pc["cron"] = "checked"
  /\ service.isRunning["cron"]
  /\ ServiceStep([service EXCEPT !.pc["cron"] = "skipped", !.isRunning["cron"] = FALSE, !.flag = FALSE])

\* await redis.setex('jobsdb:scraping:running', 3600, 'true')
SetRunning(t) ==
  /\ service.pc[t] = "checked"
  /\ ~service.isRunning[t]
  /\ ServiceStep([service EXCEPT !.pc[t] = "scraping", !.flag = TRUE])

\* processJobsDBBatch(keywords) and saveToDatabase(jobs): the batch is
\* committed, or one of the two throws and control passes to the finally
ScrapeAndSave(t) ==
  /\ service.pc[t] = "scraping"
  /\ \/ /\ service.store < MaxBatches
        /\ ServiceStep([service EXCEPT !.pc[t] = "saved", !.store = @ + 1,
                                       !.batch[t] = service.store + 1])
     \/ ServiceStep([service EXCEPT !.pc[t] = "finally"])

\* await redis.del('jobsdb:stats:hk'), after the save
ClearStats(t) ==
  /\ service.pc[t] = "saved"
  /\ ServiceStep([service EXCEPT !.pc[t] = "finally", !.stats = Absent, !.batch[t] = 0,
                                 !.cleared = Max(@, service.batch[t])])

\* What the finally of a scrape would do if it kept the flag
ClearRunning_never(t) ==
  /\ service.pc[t] = "finally"
  /\ ServiceStep([service EXCEPT !.pc[t] = "finished"])

\* finally { await redis.del('jobsdb:scraping:running') }
ClearRunning(t) ==
  /\ service.pc[t] = "finally"
  /\ ServiceStep([service EXCEPT !.pc[t] = "finished", !.flag = FALSE])

\* The keys are set with a time to live of 3600 seconds: redis drops them
ExpireRunning ==
  /\ service.flag
  /\ ServiceStep([service EXCEPT !.flag = FALSE])

ExpireStats ==
  /\ service.stats # Absent
  /\ ServiceStep([service EXCEPT !.stats = Absent])

\* GET /api/jobs/hk/scrape/status: running: !!isRunning
GetStatus ==
  /\ service.status # Some(service.flag)
  /\ ServiceStep([service EXCEPT !.status = Some(service.flag)])

\* GET /api/jobs/hk/stats: const cached = await redis.get(cacheKey);
\* if (cached) return res.json(JSON.parse(cached))
StatsGet(r) ==
  /\ service.statsPc[r] = "idle"
  /\ IF service.stats # Absent
     THEN ServiceStep([service EXCEPT !.statsPc[r] = "done", !.reply[r] = service.stats,
                                      !.after[r] = service.cleared])
     ELSE ServiceStep([service EXCEPT !.statsPc[r] = "query", !.reply[r] = Absent,
                                      !.after[r] = service.cleared])

\* const stats = await pgPool.query(...): the statistics of the store as it is
StatsQuery(r) ==
  /\ service.statsPc[r] = "query"
  /\ ServiceStep([service EXCEPT !.statsPc[r] = "cache", !.result[r] = service.store])

\* await redis.setex(cacheKey, 3600, JSON.stringify(result)); res.json(result)
StatsCache(r) ==
  /\ service.statsPc[r] = "cache"
  /\ ServiceStep([service EXCEPT !.statsPc[r] = "done", !.stats = Some(service.result[r]),
                                 !.result[r] = 0,
                                 !.reply[r] = Some(service.result[r])])

InitService ==
  /\ service = NoService
  /\ scraper = NoScraper
  /\ sweep = NoSweep
  /\ NoExtractorCall
  /\ NoBoard
  /\ NoApi
  /\ NoStore

TriggerStep(t) ==
  \/ CheckRunning(t)
  \/ AnswerConflict(t)
  \/ SetRunning(t)
  \/ ScrapeAndSave(t)
  \/ ClearStats(t)
  \/ ClearRunning(t)

StatsStep(r) ==
  \/ StatsGet(r)
  \/ StatsQuery(r)
  \/ StatsCache(r)

\* The triggers, the flag and the status endpoint
NextTrigger ==
  \/ \E t \in Triggers : TriggerStep(t)
  \/ SkipRun
  \/ ExpireRunning
  \/ GetStatus

SpecTrigger == InitService /\ [][NextTrigger]_vars

\* The triggers and the stats requests
NextService ==
  \/ NextTrigger
  \/ ExpireStats
  \/ \E r \in StatsRequests : StatsStep(r)

SpecService == InitService /\ [][NextService]_vars

\* The handler of trigger t has returned
Done(t) == service.pc[t] \in {"conflict", "skipped", "finished"}

\* The event loop runs the continuations of a handler that has passed its
\* check, and processJobsDBBatch and saveToDatabase end, by returning or by
\* throwing
SpecTriggerFair ==
  SpecTrigger
    /\ \A t \in Triggers :
         WF_vars(SetRunning(t) \/ ScrapeAndSave(t) \/ ClearStats(t) \/ ClearRunning(t))

\* C25: at most one scrape is in progress at any time: a trigger that arrives
\* while another scrape is running does not start a second scrape.
C25_OneScrapeAtATime == Cardinality({t \in Triggers : InProgress(t)}) <= 1

\* Trigger t found a scrape in progress and returns in this step
AnswersBusy(t) ==
  /\ service.pc[t] = "checked"
  /\ service.isRunning[t]
  /\ service'.pc[t] \in {"conflict", "skipped"}

\* C26: a scrape trigger that finds a scrape already in progress leaves the
\* running flag unchanged: while a scrape is running, the flag stays set
\* until that same scrape finishes, and the status endpoint reports
\* running = true for its whole duration.
C26_FlagKeptWhileRunning ==
  [][/\ \A t \in Triggers : AnswersBusy(t) => service'.flag = service.flag
     /\ \A t \in Triggers :
          (InProgress(t) /\ service.flag /\ service'.pc[t] # "finished") => service'.flag
     /\ (service'.status # service.status /\ \E t \in Triggers : InProgress(t)) =>
          service'.status = Some(TRUE)]_vars

\* C27: every scrape that sets the running flag eventually clears it once
\* the scrape ends, whether scraping and saving succeed or fail, and the flag
\* is set only while a scrape that set it has not finished, so that no later
\* trigger is rejected because of a finished scrape.
C27_FlagEventuallyCleared ==
  /\ \A t \in Triggers :
       (service.pc[t] = "scraping") ~> (service.pc[t] = "finished" /\ ~service.flag)
  /\ [](service.flag => \E t \in Triggers : InProgress(t))

\* A scrape that failed before any batch was saved has finished and the flag
\* is clear, and a scrape that saved its batch has finished too
C27_Witness ==
  /\ ~service.flag
  /\ \E t1, t2 \in Triggers :
       /\ t1 # t2
       /\ service.pc[t1] = "finished"
       /\ service.pc[t2] = "finished"
       /\ service.store = 1

\* C28: once a scrape has saved its jobs and cleared the stats cache, no
\* later stats request returns statistics computed from the store as it was
\* before that save.
C28_NoStaleStats ==
  \A r \in StatsRequests : \A v \in service.reply[r] : v >= service.after[r]

\* ---------------------------------------------------------------------------
\* saveToDatabase: the batch as a whole
\* ---------------------------------------------------------------------------

\* The call of saver p ends in this step
Settles(p) == txn[p].pc # "idle" /\ txn'[p].pc = "idle"

\* C29: saveToDatabase is all-or-nothing per batch: if inserting any job of
\* the batch fails, the transaction is rolled back and the table is left
\* without any row or update of the batch, the call ends there (the error
\* rethrown, the client released); if no insert fails, every job of the
\* batch is committed.  Until the call ends the table shows nothing of it.
C29_AllOrNothing ==
  [][\A p \in Savers :
       /\ (txn[p].pc = "failed" /\ txn'[p] # txn[p]) =>
            /\ txn'[p] = IdleTxn
            /\ table' = table
            /\ txn[p].inserted \cap table' = {}
       /\ (txn[p].pc = "open" /\ Settles(p)) =>
            /\ txn[p].next > Len(txn[p].batch)
            /\ \A k \in 1..Len(txn[p].batch) :
                 \E row \in table' : RowKey(row) = JobKey(txn[p].batch[k])
            /\ txn[p].inserted \subseteq table'
       /\ (table' # table) => \E q \in Savers : txn[q].pc = "open" /\ Settles(q)]_vars

\* A batch whose first job was inserted and whose second insert failed has
\* been rolled back: every saver is idle, ids were drawn and the table is empty
C29_Witness ==
  /\ \A p \in Savers : txn[p] = IdleTxn
  /\ table = {}
  /\ nextId >= 3

\* ---------------------------------------------------------------------------
\* The expired flag
\* ---------------------------------------------------------------------------

\* The row of table' that continues a row of table
Continues(after, row) == after.id = row.id

\* C30: the expired flag is monotone: once a row has expired = true, no later
\* operation (re-ingestion of the same key, a freshness sweep) sets it back
\* to false, and re-ingestion changes only updated_at.
C30_ExpiredMonotone ==
  [][\A row \in table : \A after \in table' :
       Continues(after, row) =>
         /\ row.expired => after.expired
         /\ (\E p \in Savers : txn[p].pc = "open" /\ txn'[p].pc = "idle") =>
              after = [row EXCEPT !.updated_at = after.updated_at]]_vars

\* The transaction of a saver has hit the key of a row that is marked expired
\* and has passed its whole batch: its commit re-ingests an expired job
C30_Witness ==
  \E p \in Savers :
    /\ txn[p].pc = "open"
    /\ txn[p].next > Len(txn[p].batch)
    /\ \E row \in table : row.expired /\ row.id \in txn[p].updated

====
